---- MODULE Spec2Model ----
(***************************************************************************)
(* A model of the neural command layer: IntentParser (semantic resolver    *)
(* with the deterministic fallback), CommandAgent (confirmation gate and   *)
(* session history) and CommandRouter (evidence gathering, consensus       *)
(* synthesis, risk check and publication).                                 *)
(*                                                                         *)
(* Conventions.  A JavaScript string is a sequence of one-character        *)
(* strings.  A JavaScript value that may be undefined, NaN, a number, a    *)
(* string or a boolean is a record [k |-> tag, n |-> number, s |-> string].*)
(* Fractions such as confidence 0.7 or sentiment 0.5 are kept in           *)
(* hundredths (70, 50); a ratio is kept as numerator and denominator.      *)
(***************************************************************************)
EXTENDS Integers, Sequences, FiniteSets, TLC

VARIABLES
    variant,        \* which CommandRouter the agent was built with: "direct" | "evidence"
    commandHistory, \* CommandAgent.commandHistory: session id -> entries
    rPc,            \* where the request being processed stands (its await point)
    request,        \* the CommandRequest being processed
    parsedCommand,  \* its ParsedCommand
    trade,          \* handleTradingCommand's locals that outlive an await
    callLog,        \* the service tools called for this request, in call order
    published,      \* the orders the bus has accepted
    response,       \* the CommandResponse of the request
    routed,         \* whether routeCommand has been called for the request
    nRequests,      \* how many requests have been received
    turns,          \* what earlier requests did (kept for the properties)
    pPc,        \* IntentParser.parseCommand: "start" | "returned" | "threw"
    pText,      \* the command text given to parseCommand
    pOutcome,   \* what the semantic resolver did for this call
    pResult,    \* the ParsedCommand returned
    gPc,        \* gatherAgentInputs: "idle" | "gathering" | "resolved"
    gIntent,    \* its intent argument
    agentCalls, \* the three promises handed to Promise.allSettled
    gResp,      \* what each remote call answered (kept for the properties)
    gOrder,     \* the order in which the calls settled (kept for the properties)
    gResults,   \* the record gatherAgentInputs resolved with
    gPrev,      \* the record of the previous call, when all its calls had failed
    sPc,        \* synthesizeAgentInputs: "start" | "returned"
    sAnalysis,  \* its analysis argument
    sIntent,    \* its intent argument
    sVerdict,   \* the verdict returned
    inflight,   \* overlapping processCommand calls: where each one stands
    appended,   \* every entry handed to addToHistory, by session (for the properties)
    nCalls      \* how many overlapping calls have been made

agentVars == <<variant, commandHistory, rPc, request, parsedCommand, trade, callLog,
               published, response, routed, nRequests, turns>>
parseVars == <<pPc, pText, pOutcome, pResult>>
gatherVars == <<gPc, gIntent, agentCalls, gResp, gOrder, gResults, gPrev>>
synthVars == <<sPc, sAnalysis, sIntent, sVerdict>>
historyVars == <<inflight, appended, nCalls>>

vars == <<variant, commandHistory, rPc, request, parsedCommand, trade, callLog,
          published, response, routed, nRequests, turns,
          pPc, pText, pOutcome, pResult,
          gPc, gIntent, agentCalls, gResp, gOrder, gResults, gPrev,
          sPc, sAnalysis, sIntent, sVerdict,
          inflight, appended, nCalls>>

-----------------------------------------------------------------------------
(* Bounds of the model *)

\* Texts are built from at most MaxPieces pieces of the vocabulary Pieces.
MaxPieces == 3

\* The agent receives at most MaxRequests requests.
MaxRequests == 2

\* At most MaxCalls overlapping processCommand calls are made.
MaxCalls == 6

-----------------------------------------------------------------------------
(* JavaScript values *)

Undef == [k |-> "undef", n |-> 0, s |-> <<>>]
NaN == [k |-> "nan", n |-> 0, s |-> <<>>]
Num(x) == [k |-> "num", n |-> x, s |-> <<>>]
Bool(b) == [k |-> "bool", n |-> IF b THEN 1 ELSE 0, s |-> <<>>]
Str(x) == [k |-> "str", n |-> 0, s |-> x]

IsNum(x) == x.k = "num"
IsBool(x) == x.k = "bool"
IsUndef(x) == x.k = "undef"

\* JavaScript truthiness of a tagged value.
Truthy(x) ==
    CASE x.k = "num" -> x.n # 0
      [] x.k = "bool" -> x.n = 1
      [] x.k = "str" -> x.s # <<>>
      [] OTHER -> FALSE

-----------------------------------------------------------------------------
(* Characters and strings *)

LowerLetters ==
    <<"a", "b", "c", "d", "e", "f", "g", "h", "i", "j", "k", "l", "m",
      "n", "o", "p", "q", "r", "s", "t", "u", "v", "w", "x", "y", "z">>
UpperLetters ==
    <<"A", "B", "C", "D", "E", "F", "G", "H", "I", "J", "K", "L", "M",
      "N", "O", "P", "Q", "R", "S", "T", "U", "V", "W", "X", "Y", "Z">>
Digits == <<"0", "1", "2", "3", "4", "5", "6", "7", "8", "9">>

\* The characters of a sequence.
Range(seq) == {seq[i] : i \in 1..Len(seq)}

IndexOf(seq, c) == CHOOSE i \in 1..Len(seq) : seq[i] = c

\* [A-Za-z]
IsAlpha(c) == c \in Range(LowerLetters) \/ c \in Range(UpperLetters)
\* \w of a JavaScript regular expression: [A-Za-z0-9_]
IsWordChar(c) == IsAlpha(c) \/ c \in Range(Digits) \/ c = "_"

toLowerChar(c) == IF c \in Range(UpperLetters) THEN LowerLetters[IndexOf(UpperLetters, c)] ELSE c
toUpperChar(c) == IF c \in Range(LowerLetters) THEN UpperLetters[IndexOf(LowerLetters, c)] ELSE c

\* A variant of toLowerCase that leaves the text as it is (a comparison that
\* forgot to fold the case).
toLowerCase_Identity(s) == s

\* String.prototype.toLowerCase / toUpperCase
toLowerCase(s) == [i \in 1..Len(s) |-> toLowerChar(s[i])]
toUpperCase(s) == [i \in 1..Len(s) |-> toUpperChar(s[i])]

\* String.prototype.includes
includes(s, sub) ==
    \E i \in 0..(Len(s) - Len(sub)) : SubSeq(s, i + 1, i + Len(sub)) = sub

\* Text literals of the source.
T_buy == <<"b", "u", "y">>
T_purchase == <<"p", "u", "r", "c", "h", "a", "s", "e">>
T_sell == <<"s", "e", "l", "l">>
T_status == <<"s", "t", "a", "t", "u", "s">>
T_portfolio == <<"p", "o", "r", "t", "f", "o", "l", "i", "o">>

-----------------------------------------------------------------------------
(* IntentParser.fallbackParse *)

\* The end of the maximal run of letters that starts at position i.
RECURSIVE RunEnd(_, _)
RunEnd(s, i) == IF i < Len(s) /\ IsAlpha(s[i + 1]) THEN RunEnd(s, i + 1) ELSE i

\* A variant that matches every maximal run of one to five letters, also next
\* to a digit or an underscore.
IsMatchAt_LetterRun(s, i) ==
    /\ IsAlpha(s[i])
    /\ (i = 1 \/ ~IsAlpha(s[i - 1]))
    /\ RunEnd(s, i) - i + 1 <= 5

\* /\b([A-Za-z]{1,5})\b/ matches at position i: a word boundary before, one to
\* five letters, a word boundary after.
IsMatchAt(s, i) ==
    /\ IsAlpha(s[i])
    /\ (i = 1 \/ ~IsWordChar(s[i - 1]))
    /\ LET j == RunEnd(s, i)
       IN  /\ j - i + 1 <= 5
           /\ (j = Len(s) \/ ~IsWordChar(s[j + 1]))

\* command.match(/\b([A-Za-z]{1,5})\b/g): every match from position i on, left to
\* right (the empty sequence stands for null).
RECURSIVE matchFrom(_, _)
matchFrom(s, i) ==
    IF i > Len(s) THEN <<>>
    ELSE IF IsMatchAt(s, i)
         THEN <<SubSeq(s, i, RunEnd(s, i))>> \o matchFrom(s, RunEnd(s, i) + 1)
         ELSE matchFrom(s, i + 1)

symbolMatch(command) == matchFrom(command, 1)

\* A variant of the stop-word list without "sell".
StopWords_NoSell ==
    {T_buy, <<"o", "f">>, <<"t", "h", "e">>, <<"a", "n", "d">>, <<"o", "r">>,
     <<"a", "t">>, <<"f", "o", "r">>, <<"i", "n">>, <<"o", "n">>}

StopWords ==
    {T_buy, T_sell, <<"o", "f">>, <<"t", "h", "e">>, <<"a", "n", "d">>, <<"o", "r">>,
     <<"a", "t">>, <<"f", "o", "r">>, <<"i", "n">>, <<"o", "n">>}

\* symbolMatch.filter(...)[0]?.toUpperCase()
extractSymbol(command) ==
    LET filtered == SelectSeq(symbolMatch(command),
                              LAMBDA word : toLowerCase(word) \notin StopWords)
    IN  IF filtered = <<>> THEN Undef ELSE Str(toUpperCase(filtered[1]))

IsAmountChar(c) == c \in Range(Digits) \/ c = ","

\* The end of the maximal run of [0-9,] that starts at position i.
RECURSIVE AmountEnd(_, _)
AmountEnd(s, i) == IF i < Len(s) /\ IsAmountChar(s[i + 1]) THEN AmountEnd(s, i + 1) ELSE i

\* command.match(/\$([0-9,]+)/): the capture group of the first match, or the
\* empty sequence for null (the group itself is never empty).
amountMatch(command) ==
    LET starts == {i \in 1..(Len(command) - 1) :
                      command[i] = "$" /\ IsAmountChar(command[i + 1])}
    IN  IF starts = {} THEN <<>>
        ELSE LET i == CHOOSE a \in starts : \A b \in starts : a <= b
             IN  SubSeq(command, i + 1, AmountEnd(command, i + 1))

\* String.prototype.replace(',', ''): a string pattern replaces the first
\* occurrence only.
replaceFirstComma(s) ==
    LET at == {i \in 1..Len(s) : s[i] = ","}
    IN  IF at = {} THEN s
        ELSE LET i == CHOOSE a \in at : \A b \in at : a <= b
             IN  SubSeq(s, 1, i - 1) \o SubSeq(s, i + 1, Len(s))

RECURSIVE LeadingDigits(_)
LeadingDigits(s) ==
    IF s = <<>> \/ Head(s) \notin Range(Digits) THEN <<>>
    ELSE <<Head(s)>> \o LeadingDigits(Tail(s))

RECURSIVE DigitsValue(_)
DigitsValue(ds) ==
    IF ds = <<>> THEN 0
    ELSE 10 * DigitsValue(SubSeq(ds, 1, Len(ds) - 1)) + (IndexOf(Digits, ds[Len(ds)]) - 1)

\* parseInt on a string of digits and commas: the leading digits, NaN if none.
parseInt(s) ==
    LET ds == LeadingDigits(s)
    IN  IF ds = <<>> THEN NaN ELSE Num(DigitsValue(ds))

extractAmount(command) ==
    LET m == amountMatch(command)
    IN  IF m = <<>> THEN Undef ELSE parseInt(replaceFirstComma(m))

NoEntities ==
    [symbol |-> Undef, amount |-> Undef, price |-> Undef, quantity |-> Undef,
     timeframe |-> Undef, condition |-> Undef]

\* The results of the four branches of fallbackParse.  confidence is in
\* hundredths.
fallbackBuy(command) ==
    [intent |-> "BUY",
     entities |-> [NoEntities EXCEPT !.symbol = extractSymbol(command),
                                     !.amount = extractAmount(command)],
     originalText |-> command,
     confidence |-> 70,
     needsConfirmation |-> TRUE]

\* A variant of the SELL branch that asks for no confirmation.
fallbackSell_NoConfirm(command) ==
    [intent |-> "SELL",
     entities |-> [NoEntities EXCEPT !.symbol = extractSymbol(command)],
     originalText |-> command,
     confidence |-> 70,
     needsConfirmation |-> FALSE]

fallbackSell(command) ==
    [intent |-> "SELL",
     entities |-> [NoEntities EXCEPT !.symbol = extractSymbol(command)],
     originalText |-> command,
     confidence |-> 70,
     needsConfirmation |-> TRUE]

fallbackStatus(command) ==
    [intent |-> "STATUS",
     entities |-> NoEntities,
     originalText |-> command,
     confidence |-> 70,
     needsConfirmation |-> FALSE]

fallbackQuery(command) ==
    [intent |-> "QUERY",
     entities |-> NoEntities,
     originalText |-> command,
     confidence |-> 30,
     needsConfirmation |-> FALSE]

\* IntentParser.fallbackParse
fallbackParse(command) ==
    LET lowerCommand == toLowerCase(command)
    IN  IF includes(lowerCommand, T_buy) \/ includes(lowerCommand, T_purchase)
        THEN fallbackBuy(command)
        ELSE IF includes(lowerCommand, T_sell)
        THEN fallbackSell(command)
        ELSE IF includes(lowerCommand, T_status) \/ includes(lowerCommand, T_portfolio)
        THEN fallbackStatus(command)
        ELSE fallbackQuery(command)

-----------------------------------------------------------------------------
(* types.ts: the ParsedCommand schema *)

CommandIntentType ==
    {"BUY", "SELL", "QUERY", "ALERT", "ANALYZE", "CONFIG", "STOP", "STATUS"}

OptionalNumber(x) == IsUndef(x) \/ IsNum(x)
OptionalString(x) == IsUndef(x) \/ x.k = "str"

\* ExtractedEntities.parse succeeds on e.
ExtractedEntitiesValid(e) ==
    /\ OptionalString(e.symbol)
    /\ OptionalNumber(e.amount)
    /\ OptionalNumber(e.price)
    /\ OptionalNumber(e.quantity)
    /\ OptionalString(e.timeframe)
    /\ OptionalString(e.condition)

\* ParsedCommand.parse succeeds on the object {...payload, originalText}.
\* payload.hasEntities tells whether the key entities holds an object at all.
ParsedCommandValid(payload) ==
    /\ payload.intent \in CommandIntentType
    /\ payload.hasEntities
    /\ ExtractedEntitiesValid(payload.entities)
    /\ IsNum(payload.confidence)
    /\ payload.confidence.n >= 0
    /\ payload.confidence.n <= 100
    /\ (IsUndef(payload.needsConfirmation) \/ IsBool(payload.needsConfirmation))

\* What ParsedCommand.parse returns for a valid payload: needsConfirmation
\* defaults to false, originalText is the command.
ParsedCommandParse(payload, command) ==
    [intent |-> payload.intent,
     entities |-> payload.entities,
     originalText |-> command,
     confidence |-> payload.confidence.n,
     needsConfirmation |-> Truthy(payload.needsConfirmation)]

-----------------------------------------------------------------------------
(* IntentParser.parseCommand *)

\* What a caller would see if parseCommand threw.
Thrown ==
    [intent |-> "", entities |-> NoEntities, originalText |-> <<>>,
     confidence |-> 0, needsConfirmation |-> FALSE]

\* A variant of parseCommand that validates outside the try block: a schema
\* failure reaches the caller.
parseCommand_Uncaught(command, outcome) ==
    IF outcome.kind = "json"
    THEN IF ParsedCommandValid(outcome.payload)
         THEN ParsedCommandParse(outcome.payload, command)
         ELSE Thrown
    ELSE fallbackParse(command)

\* IntentParser.parseCommand for a command and an outcome of the resolver call:
\* every failure inside the try block ends in fallbackParse.
parseCommand(command, outcome) ==
    IF outcome.kind = "json" /\ ParsedCommandValid(outcome.payload)
    THEN ParsedCommandParse(outcome.payload, command)
    ELSE fallbackParse(command)

-----------------------------------------------------------------------------
(* Inputs of the parser *)

T_NVDA == <<"N", "V", "D", "A">>

\* The pieces texts are made of: the keywords, one of them in mixed case, a
\* ticker after a space, and what an amount is written with.
Pieces ==
    {T_buy, <<"P", "u", "r", "C", "h", "a", "s", "e">>, T_sell, T_status, T_portfolio,
     <<" ">> \o T_NVDA, <<"$">>, <<"5", ",", "0", ",", "0">>, <<",">>}

RECURSIVE Concat(_)
Concat(ps) == IF ps = <<>> THEN <<>> ELSE Head(ps) \o Concat(Tail(ps))

Texts == {Concat(ps) : ps \in UNION {[1..n -> Pieces] : n \in 0..MaxPieces}}

BasePayload ==
    [intent |-> "BUY",
     entities |-> [NoEntities EXCEPT !.symbol = Str(<<"A", "A", "P", "L">>), !.amount = Num(5000)],
     confidence |-> Num(95),
     needsConfirmation |-> Bool(TRUE),
     hasEntities |-> TRUE]

\* JSON objects the resolver may return: valid ones, one of them with its
\* symbol in lower case, and ones that break the schema in one place.
Payloads ==
    {[BasePayload EXCEPT !.intent = i] : i \in {"BUY", "SELL", "HOLD"}}
    \cup {[BasePayload EXCEPT !.entities.symbol = Str(<<"a", "a", "p", "l">>)]}
    \cup {[BasePayload EXCEPT !.confidence = c] :
            c \in {Num(-5), Num(0), Num(100), Num(101), Undef}}
    \cup {[BasePayload EXCEPT !.hasEntities = FALSE, !.entities = NoEntities]}
    \cup {[BasePayload EXCEPT !.entities.symbol = Num(7)]}
    \cup {[BasePayload EXCEPT !.intent = "STATUS", !.needsConfirmation = x] :
            x \in {Undef, Str(<<"y", "e", "s">>)}}

NoPayload ==
    [intent |-> "", entities |-> NoEntities, confidence |-> Undef,
     needsConfirmation |-> Undef, hasEntities |-> FALSE]

NoOutcome == [payload |-> NoPayload, kind |-> "none"]


-----------------------------------------------------------------------------
(* CommandRouter (evidence path): the evidence sources and their results *)

\* A ratio num/den with den > 0; market change is a percentage kept exactly.
Rat(n, d) == [num |-> n, den |-> d]
\* A variant of the comparison that also accepts equality.
RatGt_OrEqual(r, c) == r.num >= c * r.den
RatGt(r, c) == r.num > c * r.den

\* The three sub-records a remote call fills, and their absent forms.
AbsentMarket == [present |-> FALSE, price |-> 0, change |-> Rat(0, 1), volume |-> 0]
AbsentSentiment == [present |-> FALSE, score |-> 0, confidence |-> 0, sources |-> <<>>]
AbsentRisk == [present |-> FALSE, status |-> "", score |-> 0, factors |-> <<>>]
AbsentTechnical ==
    [present |-> FALSE, trend |-> "", rsi |-> 0, support |-> 0, resistance |-> 0]
AbsentStrategy ==
    [present |-> FALSE, recommendation |-> "", confidence |-> 0, reasoning |-> 0]

\* `const results: any = {}`
EmptyResults ==
    [marketData |-> AbsentMarket, sentiment |-> AbsentSentiment, risk |-> AbsentRisk,
     technical |-> AbsentTechnical, strategy |-> AbsentStrategy]

\* The per-source defaults of the .catch handlers.
MarketDefault ==
    [present |-> TRUE, price |-> 100, change |-> Rat(0, 1), volume |-> 1000000]
SentimentDefault ==
    [present |-> TRUE, score |-> 50, confidence |-> 70, sources |-> <<"mock">>]
\* A variant of the risk default with a score above the acceptable 6.
RiskDefault_High ==
    [present |-> TRUE, status |-> "MEDIUM", score |-> 7, factors |-> <<"volatility">>]
RiskDefault ==
    [present |-> TRUE, status |-> "MEDIUM", score |-> 5, factors |-> <<"volatility">>]

Fulfilled(v) == [status |-> "fulfilled", value |-> v]
Pending(v) == [status |-> "pending", value |-> v]

\* x || d for a number: 0 is falsy, as undefined is.
OrDefault(x, d) == IF Truthy(x) THEN x.n ELSE d

\* A variant of the market-data chain without its .catch: the failure of the
\* call rejects the promise.
marketSettle_NoCatch(resp) ==
    IF ~resp.ok THEN [status |-> "rejected", value |-> AbsentMarket]
    ELSE LET rows == resp.rows
             n == Len(rows)
         IN  Fulfilled(
               [present |-> TRUE,
                price |-> IF n >= 1 THEN OrDefault(rows[n].close, 100) ELSE 100,
                change |-> IF n >= 2
                           THEN Rat((rows[n].close.n - rows[n - 1].close.n) * 100,
                                    rows[n - 1].close.n)
                           ELSE Rat(0, 1),
                volume |-> IF n >= 1 THEN OrDefault(rows[n].volume, 1000000)
                           ELSE 1000000])

\* The market-data promise chain: callMCPService(...).then(...).catch(...).
\* resp.ok is false when the call rejects; resp.rows is the rows it returned
\* (empty also when the field is missing).
marketSettle(resp) ==
    IF ~resp.ok THEN Fulfilled(MarketDefault)
    ELSE LET rows == resp.rows
             n == Len(rows)
         IN  Fulfilled(
               [present |-> TRUE,
                price |-> IF n >= 1 THEN OrDefault(rows[n].close, 100) ELSE 100,
                change |-> IF n >= 2
                           THEN Rat((rows[n].close.n - rows[n - 1].close.n) * 100,
                                    rows[n - 1].close.n)
                           ELSE Rat(0, 1),
                volume |-> IF n >= 1 THEN OrDefault(rows[n].volume, 1000000)
                           ELSE 1000000])

\* The nlp-sentiment promise chain.  Scores and confidences are in hundredths.
sentimentSettle(resp) ==
    IF ~resp.ok THEN Fulfilled(SentimentDefault)
    ELSE Fulfilled(
           [present |-> TRUE,
            score |-> OrDefault(resp.sentiment, 50),
            confidence |-> OrDefault(resp.confidence, 70),
            sources |-> IF resp.sources = <<>> THEN <<"mock">> ELSE resp.sources])

\* The risk-engine.assess_symbol promise chain.
riskSettle(resp) ==
    IF ~resp.ok THEN Fulfilled(RiskDefault)
    ELSE Fulfilled(
           [present |-> TRUE,
            status |-> IF resp.status = "" THEN "MEDIUM" ELSE resp.status,
            score |-> OrDefault(resp.riskScore, 5),
            factors |-> IF resp.factors = <<>> THEN <<"volatility", "liquidity">>
                        ELSE resp.factors])

\* A variant of the trend that counts a change of exactly 2 or -2 as a move.
trendOf_Inclusive(marketData) ==
    IF marketData.present /\ RatGt_OrEqual(marketData.change, 2) THEN "Bullish"
    ELSE IF marketData.present
            /\ RatGt_OrEqual(Rat(-marketData.change.num, marketData.change.den), 2)
         THEN "Bearish"
    ELSE "Sideways"

\* results.technical.trend
trendOf(marketData) ==
    IF marketData.present /\ RatGt(marketData.change, 2) THEN "Bullish"
    ELSE IF marketData.present
            /\ RatGt(Rat(-marketData.change.num, marketData.change.den), 2)
         THEN "Bearish"
    ELSE "Sideways"

\* results.technical; support and resistance are in hundredths of the price
\* unit, rsi is the value Math.random produced.
technicalOf(marketData, rsi) ==
    [present |-> TRUE,
     trend |-> trendOf(marketData),
     rsi |-> rsi,
     support |-> IF marketData.present THEN marketData.price * 95 ELSE 9500,
     resistance |-> IF marketData.present THEN marketData.price * 105 ELSE 10500]

\* results.strategy; confidence is in thousandths: min(0.9, c * 0.8 + 0.2).
strategyOf(sentiment, technical, intent) ==
    [present |-> TRUE,
     recommendation |->
        IF intent = "BUY"
        THEN (IF sentiment.present /\ sentiment.score > 60 /\ technical.trend # "Bearish"
              THEN "BUY" ELSE "HOLD")
        ELSE (IF sentiment.present /\ sentiment.score < 40 /\ technical.trend # "Bullish"
              THEN "SELL" ELSE "HOLD"),
     confidence |->
        LET scaled == (IF sentiment.present /\ sentiment.confidence # 0
                       THEN sentiment.confidence ELSE 70) * 8 + 200
        IN  IF 900 <= scaled THEN 900 ELSE scaled,
     reasoning |-> IF sentiment.present /\ sentiment.score # 0 THEN sentiment.score ELSE 50]

\* gatherAgentInputs after Promise.allSettled has resolved: the record built
\* from the three settled calls, the intent and the random rsi.
gatherResults(calls, intent, rsi) ==
    LET marketData == IF calls.market.status = "fulfilled"
                      THEN calls.market.value ELSE AbsentMarket
        sentiment == IF calls.sentiment.status = "fulfilled"
                     THEN calls.sentiment.value ELSE AbsentSentiment
        risk == IF calls.risk.status = "fulfilled" THEN calls.risk.value ELSE AbsentRisk
        technical == technicalOf(marketData, rsi)
    IN  [marketData |-> marketData,
         sentiment |-> sentiment,
         risk |-> risk,
         technical |-> technical,
         strategy |-> strategyOf(sentiment, technical, intent)]

\* Promise.allSettled resolves once no call is pending.
AllSettled(calls) == \A c \in DOMAIN calls : calls[c].status # "pending"

\* A variant that resolves as soon as one call has settled (Promise.race).
mayJoin_AnySettled(calls) == \E c \in DOMAIN calls : calls[c].status # "pending"

\* `await Promise.allSettled([...])` may continue.
mayJoin(calls) == AllSettled(calls)

NoCalls ==
    [market |-> Pending(AbsentMarket), sentiment |-> Pending(AbsentSentiment),
     risk |-> Pending(AbsentRisk)]

-----------------------------------------------------------------------------
(* CommandRouter.synthesizeAgentInputs *)

\* The counters and the rationale list after the four blocks have run.
synthCounters(analysis, intent) ==
    LET market ==
            IF ~analysis.marketData.present THEN [t |-> 0, p |-> 0, n |-> 0, r |-> <<>>]
            ELSE IF intent # "BUY" THEN [t |-> 1, p |-> 0, n |-> 0, r |-> <<>>]
            ELSE IF RatGt(analysis.marketData.change, 0)
                 THEN [t |-> 1, p |-> 1, n |-> 0, r |-> <<"Price momentum positive">>]
                 ELSE [t |-> 1, p |-> 0, n |-> 1, r |-> <<"Price momentum negative">>]
        sentiment ==
            IF ~analysis.sentiment.present THEN [t |-> 0, p |-> 0, n |-> 0, r |-> <<>>]
            ELSE IF intent = "BUY" /\ analysis.sentiment.score > 60
                 THEN [t |-> 1, p |-> 1, n |-> 0, r |-> <<"Sentiment bullish">>]
            ELSE IF intent = "SELL" /\ analysis.sentiment.score < 40
                 THEN [t |-> 1, p |-> 1, n |-> 0, r |-> <<"Sentiment bearish">>]
            ELSE [t |-> 1, p |-> 0, n |-> 1, r |-> <<"Sentiment not aligned">>]
        technical ==
            IF ~analysis.technical.present THEN [t |-> 0, p |-> 0, n |-> 0, r |-> <<>>]
            ELSE IF \/ (intent = "BUY" /\ analysis.technical.trend = "Bullish")
                    \/ (intent = "SELL" /\ analysis.technical.trend = "Bearish")
                 THEN [t |-> 1, p |-> 1, n |-> 0, r |-> <<"Technical trend aligned">>]
                 ELSE [t |-> 1, p |-> 0, n |-> 1, r |-> <<"Technical trend not aligned">>]
        risk ==
            IF ~analysis.risk.present THEN [t |-> 0, p |-> 0, n |-> 0, r |-> <<>>]
            ELSE IF analysis.risk.score <= 6
                 THEN [t |-> 1, p |-> 1, n |-> 0, r |-> <<"Risk acceptable">>]
                 ELSE [t |-> 1, p |-> 0, n |-> 1, r |-> <<"Risk too high">>]
    IN  [totalSignals |-> market.t + sentiment.t + technical.t + risk.t,
         positiveSignals |-> market.p + sentiment.p + technical.p + risk.p,
         negativeSignals |-> market.n + sentiment.n + technical.n + risk.n,
         reasons |-> market.r \o sentiment.r \o technical.r \o risk.r]

\* positiveSignals / totalSignals as JavaScript computes it: 0 / 0 is NaN.
Divide(p, t) ==
    IF t = 0
    THEN (IF p = 0 THEN [k |-> "nan", num |-> 0, den |-> 1]
          ELSE [k |-> "inf", num |-> 0, den |-> 1])
    ELSE [k |-> "num", num |-> p, den |-> t]

\* A variant of the threshold that proceeds on half of the signals.
AtLeastSixTenths_Half(c) ==
    \/ c.k = "inf"
    \/ c.k = "num" /\ 10 * c.num >= 5 * c.den

\* consensus >= 0.6; every comparison with NaN is false.
AtLeastSixTenths(c) ==
    \/ c.k = "inf"
    \/ c.k = "num" /\ 10 * c.num >= 6 * c.den

\* CommandRouter.synthesizeAgentInputs
synthesizeAgentInputs(analysis, intent) ==
    LET c == synthCounters(analysis, intent)
        consensus == Divide(c.positiveSignals, c.totalSignals)
        shouldProceed == AtLeastSixTenths(consensus)
    IN  [shouldProceed |-> shouldProceed,
         decision |-> [positiveSignals |-> c.positiveSignals,
                       totalSignals |-> c.totalSignals,
                       proceed |-> shouldProceed],
         confidence |-> consensus,
         reason |-> c.reasons,
         suggestedQuantity |->
            IF shouldProceed /\ consensus.k = "num"
            THEN LET floored == (10 * consensus.num) \div consensus.den
                 IN  IF 1 >= floored THEN 1 ELSE floored
            ELSE 1,
         suggestedPrice |->
            IF analysis.marketData.present THEN Num(analysis.marketData.price) ELSE Undef]

NoVerdict ==
    [shouldProceed |-> FALSE,
     decision |-> [positiveSignals |-> 0, totalSignals |-> 0, proceed |-> FALSE],
     confidence |-> [k |-> "none", num |-> 0, den |-> 1],
     reason |-> <<>>,
     suggestedQuantity |-> 0,
     suggestedPrice |-> Undef]

-----------------------------------------------------------------------------
(* Inputs of the evidence path *)

Row(close, volume) == [close |-> Num(close), volume |-> volume]

\* Answers of market-data.get_ohlcv: a failure, no rows, one row, two rows
\* with a change of +3%, -3%, +2%, -2% and +1%.
MarketResponses ==
    {[ok |-> FALSE, rows |-> <<>>],
     [ok |-> TRUE, rows |-> <<>>],
     [ok |-> TRUE, rows |-> <<Row(250, Num(5000))>>],
     [ok |-> TRUE, rows |-> <<Row(100, Num(5000)), Row(103, Undef)>>],
     [ok |-> TRUE, rows |-> <<Row(100, Num(5000)), Row(97, Num(7000))>>],
     [ok |-> TRUE, rows |-> <<Row(100, Num(5000)), Row(102, Num(7000))>>],
     [ok |-> TRUE, rows |-> <<Row(100, Num(5000)), Row(98, Num(7000))>>],
     [ok |-> TRUE, rows |-> <<Row(100, Num(5000)), Row(101, Num(7000))>>]}

\* Answers of nlp-sentiment.analyze (hundredths).
SentimentResponses ==
    {[ok |-> FALSE, sentiment |-> Undef, confidence |-> Undef, sources |-> <<>>],
     [ok |-> TRUE, sentiment |-> Num(80), confidence |-> Num(90), sources |-> <<"news">>],
     [ok |-> TRUE, sentiment |-> Num(30), confidence |-> Num(60), sources |-> <<>>],
     [ok |-> TRUE, sentiment |-> Num(170), confidence |-> Num(90), sources |-> <<>>],
     [ok |-> TRUE, sentiment |-> Num(60), confidence |-> Num(90), sources |-> <<>>],
     [ok |-> TRUE, sentiment |-> Num(40), confidence |-> Num(60), sources |-> <<>>],
     [ok |-> TRUE, sentiment |-> Undef, confidence |-> Undef, sources |-> <<>>]}

\* Answers of risk-engine.assess_symbol.
RiskResponses ==
    {[ok |-> FALSE, status |-> "", riskScore |-> Undef, factors |-> <<>>],
     [ok |-> TRUE, status |-> "LOW", riskScore |-> Num(3), factors |-> <<"beta">>],
     [ok |-> TRUE, status |-> "HIGH", riskScore |-> Num(8), factors |-> <<>>],
     [ok |-> TRUE, status |-> "HIGH", riskScore |-> Num(12), factors |-> <<>>],
     [ok |-> TRUE, status |-> "", riskScore |-> Undef, factors |-> <<>>]}

\* Values of Math.floor(Math.random() * 30) + 35: the ends of 35..64.
RsiValues == {35, 64}

NoResp ==
    [market |-> [ok |-> FALSE, rows |-> <<>>],
     sentiment |-> [ok |-> FALSE, sentiment |-> Undef, confidence |-> Undef,
                    sources |-> <<>>],
     risk |-> [ok |-> FALSE, status |-> "", riskScore |-> Undef, factors |-> <<>>]]

\* Records synthesizeAgentInputs may be given: each of the four dimensions
\* absent or present with a value on either side of its threshold.
AnalysisRecords ==
    {[marketData |-> m, sentiment |-> se, risk |-> r, technical |-> t,
      strategy |-> AbsentStrategy] :
        m \in {AbsentMarket} \cup
              {[present |-> TRUE, price |-> 100, change |-> Rat(c, 1), volume |-> 5000] :
                  c \in {-3, 0, 1}},
        se \in {AbsentSentiment} \cup
               {[present |-> TRUE, score |-> x, confidence |-> 70, sources |-> <<"mock">>] :
                  x \in {30, 60, 80}},
        r \in {AbsentRisk} \cup
              {[present |-> TRUE, status |-> "MEDIUM", score |-> x,
                factors |-> <<"volatility">>] : x \in {3, 6, 7}},
        t \in {AbsentTechnical} \cup
              {[present |-> TRUE, trend |-> x, rsi |-> 50, support |-> 9500,
                resistance |-> 10500] : x \in {"Bullish", "Bearish", "Sideways"}}}

-----------------------------------------------------------------------------
(* CommandAgent: session history, confirmation gate, confirmation message *)

\* `if (history.length > 10) history.shift()`
HistoryCapacity == 10

SessionIds == {"default"}

\* The entry pushed before parsing, and the one pushed after routing.
CommandEntry(command) ==
    [command |-> command, hasResponse |-> FALSE, response |-> "", success |-> FALSE]
ResponseEntry(command, resp) ==
    [command |-> command, hasResponse |-> TRUE, response |-> resp.message.text,
     success |-> resp.success]

\* A variant that drops the entry just pushed when the history is full.
addToHistory_DropsNewest(history, sessionId, entry) ==
    LET pushed == Append(history[sessionId], entry)
    IN  [history EXCEPT ![sessionId] =
            IF Len(pushed) > HistoryCapacity THEN SubSeq(pushed, 1, HistoryCapacity)
            ELSE pushed]

\* CommandAgent.addToHistory on the whole map.
addToHistory(history, sessionId, entry) ==
    LET pushed == Append(history[sessionId], entry)
    IN  [history EXCEPT ![sessionId] =
            IF Len(pushed) > HistoryCapacity THEN Tail(pushed) ELSE pushed]

\* A variant of the gate that remembers an earlier confirmation of the session.
awaitingConfirmation_Remembered(command, context) ==
    /\ command.needsConfirmation
    /\ ~Truthy(context.confirmed)
    /\ ~\E t \in turns : t.sessionId = request.sessionId /\ t.confirmed /\ ~t.prompted

\* A variant of the gate that asks again although the request is confirmed.
awaitingConfirmation_IgnoresFlag(command, context) == command.needsConfirmation

\* `parsedCommand.needsConfirmation && !context?.confirmed`; a request without
\* context has confirmed undefined.
awaitingConfirmation(command, context) ==
    command.needsConfirmation /\ ~Truthy(context.confirmed)

\* A message: its fixed text, the values put into it, and the strings (breaches,
\* an error message) joined into it.
MessageWith(text, args, details) == [text |-> text, args |-> args, details |-> details]
Message(text, args) == MessageWith(text, args, <<>>)

\* intent.toLowerCase()
IntentLower(intent) ==
    CASE intent = "BUY" -> T_buy
      [] intent = "SELL" -> T_sell
      [] intent = "STATUS" -> T_status
      [] intent = "QUERY" -> <<"q", "u", "e", "r", "y">>
      [] intent = "ALERT" -> <<"a", "l", "e", "r", "t">>
      [] intent = "ANALYZE" -> <<"a", "n", "a", "l", "y", "z", "e">>
      [] intent = "CONFIG" -> <<"c", "o", "n", "f", "i", "g">>
      [] intent = "STOP" -> <<"s", "t", "o", "p">>
      [] OTHER -> <<>>

NoRiskCheck == [status |-> "", breaches |-> <<>>]
NoData ==
    [requiresConfirmation |-> FALSE,
     parsedCommand |-> [attached |-> "none", intent |-> "", entities |-> NoEntities,
                        confidence |-> 0, originalText |-> <<>>,
                        needsConfirmation |-> FALSE],
     riskCheck |-> NoRiskCheck, agentAnalysis |-> EmptyResults,
     recommendation |-> NoVerdict,
     order |-> [symbol |-> Undef, action |-> "", qty |-> Undef, price |-> Undef,
               orderType |-> "", source |-> ""],
     error |-> ""]

Response(success, message, data, followUp) ==
    [success |-> success, message |-> message, data |-> data, followUp |-> followUp]

NoResponse == Response(FALSE, Message("", <<>>), NoData, "")

\* CommandAgent.generateConfirmationMessage
generateConfirmationMessage(command) ==
    LET entities == command.entities
    IN  CASE command.intent = "BUY" ->
               IF Truthy(entities.amount)
               THEN Message("Confirm: Buy $0 of 1?", <<entities.amount, entities.symbol>>)
               ELSE Message("Confirm: Buy 0 shares of 1?",
                            <<IF Truthy(entities.quantity) THEN entities.quantity
                              ELSE Num(1),
                              entities.symbol>>)
          [] command.intent = "SELL" ->
               IF Truthy(entities.amount)
               THEN Message("Confirm: Sell $0 worth of 1?",
                            <<entities.amount, entities.symbol>>)
               ELSE Message("Confirm: Sell 0 shares of 1?",
                            <<IF Truthy(entities.quantity) THEN entities.quantity
                              ELSE Str(<<"a", "l", "l">>),
                              entities.symbol>>)
          [] OTHER -> Message("Confirm: Execute 0 command?",
                              <<Str(IntentLower(command.intent))>>)

\* A variant of the prompt that answers as the catch block of processCommand
\* does: a failure with nothing of the command attached.
confirmationResponse_Failure(command) ==
    Response(FALSE, Message("I encountered an error processing your request.", <<>>),
             NoData, "")

\* The response of the awaiting-confirmation outcome; it carries the
\* {intent, entities, confidence} of the command.
confirmationResponse(command) ==
    Response(TRUE, generateConfirmationMessage(command),
             [NoData EXCEPT
                 !.requiresConfirmation = TRUE,
                 !.parsedCommand =
                     [attached |-> "summary", intent |-> command.intent,
                      entities |-> command.entities, confidence |-> command.confidence,
                      originalText |-> <<>>, needsConfirmation |-> FALSE]],
             "Reply with yes to confirm or no to cancel.")

-----------------------------------------------------------------------------
(* CommandRouter: responses of the handlers *)

MissingSymbol ==
    Response(FALSE, Message("Please specify a stock symbol for trading commands.", <<>>),
             NoData, "")

\* A variant that answers a failure with an empty message.
FailedToProcess_NoMessage(intent, error) == Response(FALSE, Message("", <<>>), NoData, "")

\* A variant that hides the error behind 'Unknown error'.
FailedToProcess_UnknownError(intent, error) ==
    Response(FALSE, MessageWith("Failed to process 0 order: 1",
                                <<Str(toUpperCase(IntentLower(intent)))>>,
                                <<"Unknown error">>),
             NoData, "")

\* `Failed to process ${intent} order: ${error.message}`
FailedToProcess(intent, error) ==
    Response(FALSE, MessageWith("Failed to process 0 order: 1",
                                <<Str(toUpperCase(IntentLower(intent)))>>,
                                <<error>>),
             NoData, "")

\* A variant that takes only the status REJECTED for a rejection.
isRejected_OnlyRejectedStatus(riskCheck) == riskCheck.status = "REJECTED"

\* riskCheck.status !== 'APPROVED'
isRejected(riskCheck) == riskCheck.status # "APPROVED"

\* A variant that reports the first breach only.
BreachList_FirstOnly(riskCheck) ==
    IF riskCheck.breaches = <<>> THEN <<"Risk limits exceeded">>
    ELSE <<Head(riskCheck.breaches)>>

\* breaches?.join(', ') || 'Risk limits exceeded'
BreachList(riskCheck) ==
    IF riskCheck.breaches = <<>> THEN <<"Risk limits exceeded">> ELSE riskCheck.breaches

\* The proposal handed to risk-engine.pretrade_check.
Proposal(command, quantity, price) ==
    [symbol |-> command.entities.symbol, side |-> command.intent, qty |-> quantity,
     price |-> price, limits |-> [maxGross |-> 100000, maxSingle |-> 10000]]

NoTrade ==
    [quantity |-> Undef, price |-> Undef, proposal |-> Proposal(Thrown, Undef, Undef),
     riskCheck |-> NoRiskCheck, agentAnalysis |-> EmptyResults,
     recommendation |-> NoVerdict]

\* The direct router's quantity:
\* entities.quantity || (entities.amount ? Math.floor(amount / currentPrice) : 1)
directQuantity(entities, currentPrice) ==
    IF Truthy(entities.quantity) THEN entities.quantity
    ELSE IF Truthy(entities.amount) THEN Num(entities.amount.n \div currentPrice.n)
    ELSE Num(1)

\* entities.price || fallback
priceOr(entities, fallback) == IF Truthy(entities.price) THEN entities.price ELSE fallback

\* The evidence router's quantity:
\* entities.quantity || recommendation.suggestedQuantity || 1
evidenceQuantity(entities, recommendation) ==
    IF Truthy(entities.quantity) THEN entities.quantity
    ELSE IF recommendation.suggestedQuantity # 0 THEN Num(recommendation.suggestedQuantity)
    ELSE Num(1)

tradeOrder(command, quantity, price) ==
    [symbol |-> command.entities.symbol, action |-> command.intent, qty |-> quantity,
     price |-> price,
     orderType |-> IF Truthy(command.entities.price) THEN "LIMIT" ELSE "MARKET",
     source |-> "neural-command"]

\* Direct router: the risk check did not approve.
directRejected(riskCheck) ==
    Response(FALSE, MessageWith("Trade rejected by risk engine: 0", <<>>,
                                BreachList(riskCheck)),
             [NoData EXCEPT !.riskCheck = riskCheck], "")

\* Direct router: the order was published.
directSubmitted(command, order, riskCheck) ==
    Response(TRUE, Message("0 order for 1 shares of 2 submitted successfully.",
                           <<Str(toUpperCase(IntentLower(command.intent))), order.qty,
                             order.symbol>>),
             [NoData EXCEPT !.order = order, !.riskCheck = riskCheck],
             IF Truthy(command.entities.price) THEN "limit price" ELSE "market price")

\* Evidence router: the final risk check did not approve.
evidenceRejected(agentAnalysis, riskCheck) ==
    Response(FALSE, MessageWith("Agent Swarm Analysis ... Final risk check failed: 0", <<>>,
                                BreachList(riskCheck)),
             [NoData EXCEPT !.agentAnalysis = agentAnalysis, !.riskCheck = riskCheck], "")

\* A variant that reports the approved trade as final instead of asking again.
evidenceConfirm_Final(command, quantity, agentAnalysis, recommendation) ==
    Response(TRUE, Message("Agent Swarm Analysis ... Confirm: 0 1 shares of 2?",
                           <<Str(toUpperCase(IntentLower(command.intent))), quantity,
                             command.entities.symbol>>),
             [NoData EXCEPT !.agentAnalysis = agentAnalysis,
                            !.recommendation = recommendation],
             "")

\* Evidence router: approved, the user is asked to confirm; the response
\* carries the whole ParsedCommand.
evidenceConfirm(command, quantity, agentAnalysis, recommendation) ==
    Response(TRUE, Message("Agent Swarm Analysis ... Confirm: 0 1 shares of 2?",
                           <<Str(toUpperCase(IntentLower(command.intent))), quantity,
                             command.entities.symbol>>),
             [NoData EXCEPT !.requiresConfirmation = TRUE,
                            !.parsedCommand =
                                [attached |-> "full", intent |-> command.intent,
                                 entities |-> command.entities,
                                 confidence |-> command.confidence,
                                 originalText |-> command.originalText,
                                 needsConfirmation |-> command.needsConfirmation],
                            !.agentAnalysis = agentAnalysis,
                            !.recommendation = recommendation],
             "Reply with yes to confirm or no to cancel.")

\* Evidence router: the agents advise against the trade.
evidenceAgainst(agentAnalysis, recommendation) ==
    Response(FALSE, MessageWith("Agent Swarm Analysis ... Agents recommend AGAINST this trade: 0",
                                <<>>, recommendation.reason),
             [NoData EXCEPT !.agentAnalysis = agentAnalysis,
                            !.recommendation = recommendation], "")

\* The handlers that call no service.
staticResponse(command) ==
    CASE command.intent = "STATUS" ->
            Response(TRUE, Message("Portfolio Status", <<>>), NoData, "details?")
      [] command.intent = "QUERY" ->
            Response(TRUE, Message("I understand you're asking: 0",
                                   <<Str(command.originalText)>>), NoData, "try")
      [] command.intent = "ANALYZE" ->
            Response(TRUE, Message("Analysis", <<IF Truthy(command.entities.timeframe)
                                                 THEN command.entities.timeframe
                                                 ELSE Str(<<"1", "d">>)>>), NoData, "deeper?")
      [] command.intent = "CONFIG" ->
            Response(TRUE, Message("Configuration commands not yet implemented.", <<>>),
                     NoData, "soon")
      [] command.intent = "STOP" ->
            Response(TRUE,
                     Message(IF variant = "direct"
                             THEN "Emergency stop activated. All trading agents have been paused."
                             ELSE "EMERGENCY STOP ACTIVATED: All trading operations have been suspended for safety.",
                             <<>>),
                     NoData, "resume")
      [] OTHER ->
            Response(FALSE, Message("Unknown command intent: 0",
                                    <<Str(IntentLower(command.intent))>>), NoData, "")

\* The three responses of handleAlertCommand.
alertResponse(outcome, command) ==
    CASE outcome = "incomplete" ->
            Response(FALSE, Message("Please specify both symbol and price for alerts", <<>>),
                     NoData, "")
      [] outcome = "set" ->
            Response(TRUE, Message("Alert set for 0 at $1",
                                   <<command.entities.symbol, command.entities.price>>),
                     NoData, "notify")
      [] OTHER ->
            Response(FALSE, Message("Failed to set alert. Please try again.", <<>>),
                     NoData, "")

-----------------------------------------------------------------------------
(* Idle values of the groups of variables *)

NoRequest == [command |-> <<>>, sessionId |-> "", context |-> [confirmed |-> Undef]]

AgentIdle ==
    /\ variant = "none"
    /\ commandHistory = [sid \in SessionIds |-> <<>>]
    /\ rPc = "idle"
    /\ request = NoRequest
    /\ parsedCommand = Thrown
    /\ trade = NoTrade
    /\ callLog = <<>>
    /\ published = <<>>
    /\ response = NoResponse
    /\ routed = FALSE
    /\ nRequests = 0
    /\ turns = {}

ParseIdle ==
    /\ pPc = "idle"
    /\ pText = <<>>
    /\ pOutcome = NoOutcome
    /\ pResult = Thrown

GatherIdle ==
    /\ gPc = "idle"
    /\ gIntent = ""
    /\ agentCalls = NoCalls
    /\ gResp = NoResp
    /\ gOrder = <<>>
    /\ gResults = EmptyResults
    /\ gPrev = EmptyResults

SynthIdle ==
    /\ sPc = "idle"
    /\ sAnalysis = EmptyResults
    /\ sIntent = ""
    /\ sVerdict = NoVerdict

\* The overlapping processCommand calls, each at one of its await points.
Slots == {"a", "b"}
NoCall == [pc |-> "free", sessionId |-> "", command |-> <<>>]

HistoryIdle ==
    /\ inflight = [slot \in Slots |-> NoCall]
    /\ appended = [sid \in SessionIds |-> <<>>]
    /\ nCalls = 0

-----------------------------------------------------------------------------
(* Specification of the parser alone: one parseCommand call per behaviour *)

InitParse ==
    /\ pPc = "start"
    /\ pText \in Texts
    /\ pOutcome = NoOutcome
    /\ pResult = Thrown
    /\ AgentIdle
    /\ GatherIdle
    /\ SynthIdle
    /\ HistoryIdle

\* The resolver call ends with `outcome`, and parseCommand returns.
Resolve(outcome) ==
    /\ pPc = "start"
    /\ pOutcome' = outcome
    /\ pResult' = parseCommand(pText, outcome)
    /\ pPc' = IF pResult' = Thrown THEN "threw" ELSE "returned"
    /\ UNCHANGED <<pText, agentVars, gatherVars, synthVars, historyVars>>

NextParse ==
    \/ Resolve([payload |-> NoPayload, kind |-> "throws"])
    \/ Resolve([payload |-> NoPayload, kind |-> "nontext"])
    \/ Resolve([payload |-> NoPayload, kind |-> "nojson"])
    \/ Resolve([payload |-> NoPayload, kind |-> "badjson"])
    \/ \E p \in Payloads : Resolve([payload |-> p, kind |-> "json"])

SpecParse == InitParse /\ [][NextParse]_vars

-----------------------------------------------------------------------------
(* Specification of gatherAgentInputs alone: repeated calls, the three remote *)
(* calls settling in any order                                                *)

InitGather == AgentIdle /\ ParseIdle /\ GatherIdle /\ SynthIdle /\ HistoryIdle

AllFailed(resp) == ~resp.market.ok /\ ~resp.sentiment.ok /\ ~resp.risk.ok

\* gatherAgentInputs is called: the three calls are issued at once.
GatherStart ==
    /\ gPc \in {"idle", "resolved"}
    /\ \E intent \in {"BUY", "SELL"} : gIntent' = intent
    /\ gPc' = "gathering"
    /\ agentCalls' = NoCalls
    /\ gResp' = NoResp
    /\ gOrder' = <<>>
    /\ gResults' = EmptyResults
    /\ gPrev' = IF gPc = "resolved" /\ AllFailed(gResp) THEN gResults ELSE EmptyResults
    /\ UNCHANGED <<agentVars, parseVars, synthVars, historyVars>>

\* The market call settles.
SettleMarket ==
    /\ gPc = "gathering"
    /\ agentCalls.market.status = "pending"
    /\ \E r \in MarketResponses :
          /\ agentCalls' = [agentCalls EXCEPT !.market = marketSettle(r)]
          /\ gResp' = [gResp EXCEPT !.market = r]
    /\ gOrder' = Append(gOrder, "market")
    /\ UNCHANGED <<gPc, gIntent, gResults, gPrev, agentVars, parseVars, synthVars, historyVars>>

\* The sentiment call settles.
SettleSentiment ==
    /\ gPc = "gathering"
    /\ agentCalls.sentiment.status = "pending"
    /\ \E r \in SentimentResponses :
          /\ agentCalls' = [agentCalls EXCEPT !.sentiment = sentimentSettle(r)]
          /\ gResp' = [gResp EXCEPT !.sentiment = r]
    /\ gOrder' = Append(gOrder, "sentiment")
    /\ UNCHANGED <<gPc, gIntent, gResults, gPrev, agentVars, parseVars, synthVars, historyVars>>

\* The risk call settles.
SettleRisk ==
    /\ gPc = "gathering"
    /\ agentCalls.risk.status = "pending"
    /\ \E r \in RiskResponses :
          /\ agentCalls' = [agentCalls EXCEPT !.risk = riskSettle(r)]
          /\ gResp' = [gResp EXCEPT !.risk = r]
    /\ gOrder' = Append(gOrder, "risk")
    /\ UNCHANGED <<gPc, gIntent, gResults, gPrev, agentVars, parseVars, synthVars, historyVars>>

\* Promise.allSettled resolves; the rest of gatherAgentInputs runs and returns.
GatherResolve ==
    /\ gPc = "gathering"
    /\ mayJoin(agentCalls)
    /\ \E rsi \in RsiValues : gResults' = gatherResults(agentCalls, gIntent, rsi)
    /\ gPc' = "resolved"
    /\ UNCHANGED <<gIntent, agentCalls, gResp, gOrder, gPrev, agentVars, parseVars,
                   synthVars, historyVars>>

NextGather ==
    \/ GatherStart
    \/ SettleMarket
    \/ SettleSentiment
    \/ SettleRisk
    \/ GatherResolve

SpecGather == InitGather /\ [][NextGather]_vars

-----------------------------------------------------------------------------
(* Specification of synthesizeAgentInputs alone *)

InitSynth ==
    /\ AgentIdle
    /\ ParseIdle
    /\ GatherIdle
    /\ sPc = "start"
    /\ sAnalysis \in AnalysisRecords
    /\ sIntent \in {"BUY", "SELL"}
    /\ sVerdict = NoVerdict
    /\ HistoryIdle

Synthesize ==
    /\ sPc = "start"
    /\ sVerdict' = synthesizeAgentInputs(sAnalysis, sIntent)
    /\ sPc' = "returned"
    /\ UNCHANGED <<sAnalysis, sIntent, agentVars, parseVars, gatherVars, historyVars>>

NextSynth == Synthesize

SpecSynth == InitSynth /\ [][NextSynth]_vars

-----------------------------------------------------------------------------
(* Inputs of the agent *)

\* "buy NVDA", "sell" (no symbol), "x"
RouterTexts == {T_buy \o <<" ">> \o T_NVDA, T_sell, <<"x">>}

\* context.confirmed: no context or no flag, false, true.
ContextFlags == {Undef, Bool(FALSE), Bool(TRUE)}

\* What the resolver returns to the agent: a failure, or one of these objects.
RouterPayloads ==
    {BasePayload,
     [BasePayload EXCEPT !.entities.amount = Num(50), !.needsConfirmation = Undef],
     [BasePayload EXCEPT !.intent = "SELL", !.entities.amount = Undef,
                         !.entities.quantity = Num(3), !.entities.price = Num(120)],
     [BasePayload EXCEPT !.intent = "ALERT", !.entities.price = Num(200),
                         !.needsConfirmation = Bool(FALSE)],
     [BasePayload EXCEPT !.entities.symbol = Undef, !.needsConfirmation = Bool(FALSE)],
     [BasePayload EXCEPT !.intent = "STOP"]}

\* Answers to the evidence router's three calls: a failure or a favourable one.
RouterMarketResponses ==
    {[ok |-> FALSE, rows |-> <<>>],
     [ok |-> TRUE, rows |-> <<Row(100, Num(5000)), Row(103, Num(7000))>>]}
RouterSentimentResponses ==
    {[ok |-> TRUE, sentiment |-> Num(80), confidence |-> Num(90), sources |-> <<"news">>]}
RouterRiskResponses ==
    {[ok |-> TRUE, status |-> "LOW", riskScore |-> Num(3), factors |-> <<"beta">>]}

\* Answers of risk-engine.pretrade_check: the call fails, approves, rejects
\* with two breaches, answers with another status and no breaches.
RiskChecks ==
    {[ok |-> FALSE, status |-> "", breaches |-> <<>>],
     [ok |-> TRUE, status |-> "APPROVED", breaches |-> <<>>],
     [ok |-> TRUE, status |-> "REJECTED", breaches |-> <<"maxSingle", "maxGross">>],
     [ok |-> TRUE, status |-> "REVIEW", breaches |-> <<>>]}

\* The error message callMCPService throws for a service.
ServiceError(service) == "MCP service " \o service \o " error"

-----------------------------------------------------------------------------
(* Specification of the agent: requests processed one after the other, each   *)
(* step running from one await point to the next                              *)

Init ==
    /\ variant \in {"direct", "evidence"}
    /\ commandHistory = [sid \in SessionIds |-> <<>>]
    /\ rPc = "idle"
    /\ request = NoRequest
    /\ parsedCommand = Thrown
    /\ trade = NoTrade
    /\ callLog = <<>>
    /\ published = <<>>
    /\ response = NoResponse
    /\ routed = FALSE
    /\ nRequests = 0
    /\ turns = {}
    /\ ParseIdle
    /\ GatherIdle
    /\ SynthIdle
    /\ HistoryIdle

\* processCommand up to `await this.intentParser.parseCommand(...)`.
Receive ==
    /\ rPc = "idle"
    /\ nRequests < MaxRequests
    /\ \E command \in RouterTexts, sessionId \in SessionIds, confirmed \in ContextFlags :
          /\ request' = [command |-> command, sessionId |-> sessionId,
                         context |-> [confirmed |-> confirmed]]
          /\ commandHistory' = addToHistory(commandHistory, sessionId, CommandEntry(command))
    /\ rPc' = "parsing"
    /\ nRequests' = nRequests + 1
    /\ UNCHANGED <<variant, parsedCommand, trade, callLog, published, response, routed,
                   turns, parseVars, gatherVars, synthVars, historyVars>>

\* routeCommand has returned resp: processCommand adds it to the history and
\* returns it.
Respond(resp) ==
    /\ response' = resp
    /\ commandHistory' =
          addToHistory(commandHistory, request.sessionId, ResponseEntry(request.command, resp))
    /\ rPc' = "responded"

\* callMCPService(tool) is awaited at position pc.
Call(tool, pc) ==
    /\ callLog' = Append(callLog, tool)
    /\ rPc' = pc
    /\ UNCHANGED <<response, commandHistory>>

\* A variant of handleTradingCommand without the check of entities.symbol.
handleTradingCommand_NoSymbolCheck(command) ==
    IF variant = "direct"
    THEN Call("market-data.get_ohlcv", "market") /\ UNCHANGED gatherVars
    ELSE /\ callLog' = callLog \o <<"market-data.get_ohlcv", "nlp-sentiment.analyze",
                                    "risk-engine.assess_symbol">>
         /\ rPc' = "gathering"
         /\ gPc' = "gathering"
         /\ gIntent' = command.intent
         /\ agentCalls' = NoCalls
         /\ gResp' = NoResp
         /\ gOrder' = <<>>
         /\ gResults' = EmptyResults
         /\ UNCHANGED <<response, commandHistory, gPrev>>

\* handleTradingCommand up to its first await; the evidence router starts its
\* three calls inside gatherAgentInputs.
handleTradingCommand(command) ==
    IF ~Truthy(command.entities.symbol)
    THEN Respond(MissingSymbol) /\ UNCHANGED <<callLog, gatherVars>>
    ELSE IF variant = "direct"
    THEN Call("market-data.get_ohlcv", "market") /\ UNCHANGED gatherVars
    ELSE /\ callLog' = callLog \o <<"market-data.get_ohlcv", "nlp-sentiment.analyze",
                                    "risk-engine.assess_symbol">>
         /\ rPc' = "gathering"
         /\ gPc' = "gathering"
         /\ gIntent' = command.intent
         /\ agentCalls' = NoCalls
         /\ gResp' = NoResp
         /\ gOrder' = <<>>
         /\ gResults' = EmptyResults
         /\ UNCHANGED <<response, commandHistory, gPrev>>

\* handleAlertCommand up to its await.
handleAlertCommand(command) ==
    IF ~Truthy(command.entities.symbol) \/ ~Truthy(command.entities.price)
    THEN Respond(alertResponse("incomplete", command)) /\ UNCHANGED <<callLog, gatherVars>>
    ELSE Call("config.set", "alert") /\ UNCHANGED gatherVars

\* CommandRouter.routeCommand up to the first await of the handler.
routeCommand(command) ==
    /\ routed' = TRUE
    /\ IF command.intent \in {"BUY", "SELL"} THEN handleTradingCommand(command)
       ELSE IF command.intent = "ALERT"
       THEN handleAlertCommand(command)
       ELSE Respond(staticResponse(command)) /\ UNCHANGED <<callLog, gatherVars>>

\* The resolver call ends; processCommand runs the confirmation gate and either
\* returns the prompt or calls routeCommand.
ParseReturns ==
    /\ rPc = "parsing"
    /\ \E outcome \in {[payload |-> NoPayload, kind |-> "throws"]}
                      \cup {[payload |-> p, kind |-> "json"] : p \in RouterPayloads} :
          LET command == parseCommand(request.command, outcome)
          IN  /\ parsedCommand' = command
              /\ IF awaitingConfirmation(command, request.context)
                 THEN /\ response' = confirmationResponse(command)
                      /\ rPc' = "responded"
                      /\ UNCHANGED <<commandHistory, callLog, routed, gatherVars>>
                 ELSE routeCommand(command)
    /\ UNCHANGED <<variant, request, trade, published, nRequests, turns, parseVars,
                   synthVars, historyVars>>

\* Direct router: the market-data call ends: it failed, or answered with no
\* rows or with one row.
MarketReturns ==
    /\ rPc = "market"
    /\ \E marketData \in {[ok |-> FALSE, rows |-> <<>>],
                           [ok |-> TRUE, rows |-> <<>>],
                           [ok |-> TRUE, rows |-> <<Row(100, Num(5000))>>]} :
          IF ~marketData.ok
          THEN /\ Respond(FailedToProcess(parsedCommand.intent, ServiceError("market-data")))
               /\ UNCHANGED <<callLog, trade>>
          ELSE IF marketData.rows = <<>>
          THEN /\ Respond(Response(FALSE,
                                   Message("Could not fetch price data for 0",
                                           <<parsedCommand.entities.symbol>>), NoData, ""))
               /\ UNCHANGED <<callLog, trade>>
          ELSE LET currentPrice == marketData.rows[Len(marketData.rows)].close
                   quantity == directQuantity(parsedCommand.entities, currentPrice)
                   price == priceOr(parsedCommand.entities, currentPrice)
               IN  /\ trade' = [NoTrade EXCEPT
                                   !.quantity = quantity, !.price = price,
                                   !.proposal = Proposal(parsedCommand, quantity, price)]
                   /\ Call("risk-engine.pretrade_check", "riskcheck")
    /\ UNCHANGED <<variant, request, parsedCommand, published, routed, nRequests, turns,
                   parseVars, gatherVars, synthVars, historyVars>>

\* Evidence router: handleTradingCommand from the return of gatherAgentInputs
\* with agentAnalysis to the risk check or to its abstain response.
afterGather(agentAnalysis) ==
    \E recommendation \in {synthesizeAgentInputs(agentAnalysis, parsedCommand.intent)} :
       LET quantity == evidenceQuantity(parsedCommand.entities, recommendation)
           price == priceOr(parsedCommand.entities, recommendation.suggestedPrice)
       IN  /\ gResults' = agentAnalysis
           /\ gPc' = "resolved"
           /\ IF recommendation.shouldProceed
              THEN /\ trade' = [NoTrade EXCEPT
                                   !.quantity = quantity, !.price = price,
                                   !.proposal = Proposal(parsedCommand, quantity, price),
                                   !.agentAnalysis = agentAnalysis,
                                   !.recommendation = recommendation]
                   /\ Call("risk-engine.pretrade_check", "riskcheck")
              ELSE /\ trade' = [NoTrade EXCEPT !.agentAnalysis = agentAnalysis,
                                               !.recommendation = recommendation]
                   /\ Respond(evidenceAgainst(agentAnalysis, recommendation))
                   /\ UNCHANGED callLog
           /\ UNCHANGED <<variant, request, parsedCommand, published, routed, nRequests,
                          turns, gIntent, gPrev, parseVars, synthVars, historyVars>>

\* Evidence router: the three calls settle, gatherAgentInputs returns (it cannot
\* throw) and handleTradingCommand runs on, all in one step.
GatherReturns ==
    /\ rPc = "gathering"
    /\ \E m \in RouterMarketResponses, s \in RouterSentimentResponses,
          r \in RouterRiskResponses, rsi \in RsiValues :
          LET calls == [market |-> marketSettle(m), sentiment |-> sentimentSettle(s),
                        risk |-> riskSettle(r)]
          IN  /\ mayJoin(calls)
              /\ agentCalls' = calls
              /\ gResp' = [market |-> m, sentiment |-> s, risk |-> r]
              /\ gOrder' = <<"market", "sentiment", "risk">>
              /\ \E agentAnalysis \in {gatherResults(calls, parsedCommand.intent, rsi)} :
                     afterGather(agentAnalysis)

\* The pre-trade risk check ends.
RiskCheckReturns ==
    /\ rPc = "riskcheck"
    /\ \E riskCheck \in RiskChecks :
          LET result == [status |-> riskCheck.status, breaches |-> riskCheck.breaches]
          IN  IF ~riskCheck.ok
              THEN /\ Respond(FailedToProcess(parsedCommand.intent,
                                              ServiceError("risk-engine")))
                   /\ UNCHANGED <<callLog, trade>>
              ELSE IF isRejected(riskCheck)
              THEN /\ Respond(IF variant = "direct" THEN directRejected(result)
                              ELSE evidenceRejected(trade.agentAnalysis, result))
                   /\ trade' = [trade EXCEPT !.riskCheck = result]
                   /\ UNCHANGED callLog
              ELSE IF variant = "direct"
              THEN /\ trade' = [trade EXCEPT !.riskCheck = result]
                   /\ Call("bus.publish", "publishing")
              ELSE /\ Respond(evidenceConfirm(parsedCommand, trade.quantity,
                                              trade.agentAnalysis, trade.recommendation))
                   /\ trade' = [trade EXCEPT !.riskCheck = result]
                   /\ UNCHANGED callLog
    /\ UNCHANGED <<variant, request, parsedCommand, published, routed, nRequests, turns,
                   parseVars, gatherVars, synthVars, historyVars>>

\* A variant of the publishing step that writes the computed quantity into the
\* command's entities.
PublishReturns_WritesQuantity ==
    /\ rPc = "publishing"
    /\ parsedCommand' = [parsedCommand EXCEPT !.entities.quantity = trade.quantity]
    /\ LET order == tradeOrder(parsedCommand, trade.quantity, trade.price)
       IN  /\ published' = Append(published, order)
           /\ Respond(directSubmitted(parsedCommand, order, trade.riskCheck))
    /\ UNCHANGED <<variant, request, trade, callLog, routed, nRequests, turns, parseVars,
                   gatherVars, synthVars, historyVars>>

\* Direct router: the bus.publish call ends.
PublishReturns ==
    /\ rPc = "publishing"
    /\ LET order == tradeOrder(parsedCommand, trade.quantity, trade.price)
       IN  \/ /\ published' = Append(published, order)
              /\ Respond(directSubmitted(parsedCommand, order, trade.riskCheck))
           \/ /\ Respond(FailedToProcess(parsedCommand.intent, ServiceError("bus")))
              /\ UNCHANGED published
    /\ UNCHANGED <<variant, request, parsedCommand, trade, callLog, routed, nRequests,
                   turns, parseVars, gatherVars, synthVars, historyVars>>

\* handleAlertCommand: the config.set call ends.
AlertReturns ==
    /\ rPc = "alert"
    /\ \/ Respond(alertResponse("set", parsedCommand))
       \/ Respond(alertResponse("failed", parsedCommand))
    /\ UNCHANGED <<variant, request, parsedCommand, trade, callLog, published, routed,
                   nRequests, turns, parseVars, gatherVars, synthVars, historyVars>>

\* The response reaches the caller; the agent is ready for the next request.
Return ==
    /\ rPc = "responded"
    /\ rPc' = "idle"
    /\ turns' = turns \cup {[sessionId |-> request.sessionId, command |-> request.command,
                             confirmed |-> Truthy(request.context.confirmed),
                             prompted |-> ~routed]}
    /\ request' = NoRequest
    /\ parsedCommand' = Thrown
    /\ trade' = NoTrade
    /\ callLog' = <<>>
    /\ response' = NoResponse
    /\ routed' = FALSE
    /\ gPc' = "idle"
    /\ gIntent' = ""
    /\ agentCalls' = NoCalls
    /\ gResp' = NoResp
    /\ gOrder' = <<>>
    /\ gResults' = EmptyResults
    /\ UNCHANGED <<variant, commandHistory, published, nRequests, gPrev, parseVars,
                   synthVars, historyVars>>

Next ==
    \/ Receive
    \/ ParseReturns
    \/ MarketReturns
    \/ GatherReturns
    \/ RiskCheckReturns
    \/ PublishReturns
    \/ AlertReturns
    \/ Return

Spec == Init /\ [][Next]_vars

-----------------------------------------------------------------------------
(* Specification of the evidence router with its three evidence calls         *)
(* settling one by one, in any order, while the request waits; one request is *)
(* followed from its arrival to its response                                  *)

InitEvidence == Init /\ variant = "evidence"

\* Promise.allSettled resolves inside the request: gatherAgentInputs returns
\* and handleTradingCommand runs on.
EvidenceJoin ==
    /\ rPc = "gathering"
    /\ gPc = "gathering"
    /\ mayJoin(agentCalls)
    /\ \E rsi \in RsiValues :
          \E agentAnalysis \in {gatherResults(agentCalls, gIntent, rsi)} :
             afterGather(agentAnalysis)
    /\ UNCHANGED <<agentCalls, gResp, gOrder>>

NextEvidence ==
    \/ Receive
    \/ ParseReturns
    \/ SettleMarket
    \/ SettleSentiment
    \/ SettleRisk
    \/ EvidenceJoin
    \/ RiskCheckReturns
    \/ AlertReturns

SpecEvidence == InitEvidence /\ [][NextEvidence]_vars

-----------------------------------------------------------------------------
(* Specification of one request through either router when every awaited call *)
(* eventually resolves or rejects and the event loop runs every continuation  *)
(* that is ready; nothing obliges a caller to send the request                *)

NextLive ==
    \/ Receive
    \/ ParseReturns
    \/ MarketReturns
    \/ SettleMarket
    \/ SettleSentiment
    \/ SettleRisk
    \/ EvidenceJoin
    \/ RiskCheckReturns
    \/ PublishReturns
    \/ AlertReturns

SpecLive ==
    /\ Init
    /\ [][NextLive]_vars
    /\ WF_vars(ParseReturns)
    /\ WF_vars(MarketReturns)
    /\ WF_vars(SettleMarket)
    /\ WF_vars(SettleSentiment)
    /\ WF_vars(SettleRisk)
    /\ WF_vars(EvidenceJoin)
    /\ WF_vars(RiskCheckReturns)
    /\ WF_vars(PublishReturns)
    /\ WF_vars(AlertReturns)

-----------------------------------------------------------------------------
(* Properties of the confirmation gate *)

\* The request in progress is past the gate.
Decided == rPc \notin {"idle", "parsing"}

\* The request in progress gave no truthy confirmed flag.
Unconfirmed == ~Truthy(request.context.confirmed)

\* processCommand returned from inside the gate, routeCommand not called.
PromptOutcome == rPc = "responded" /\ ~routed

\* The response is the gate's prompt: it asks for confirmation and carries the
\* three-field summary of the command (the evidence router's own confirmation
\* request carries the whole command).
IsPrompt(resp) ==
    /\ resp.data.requiresConfirmation
    /\ resp.data.parsedCommand.attached = "summary"

\* C1: processCommand returns the confirmation prompt without calling
\* routeCommand if and only if the parsed command has needsConfirmation = true
\* and the context carries no truthy confirmed flag; in every other case the
\* command is routed.  So no command that needs confirmation is routed by a
\* request that lacks the flag.
C1_GateIff ==
    Decided =>
        /\ routed <=> ~(parsedCommand.needsConfirmation /\ Unconfirmed)
        /\ ~routed => rPc = "responded" /\ IsPrompt(response)
        /\ routed => ~IsPrompt(response)

\* The gate has prompted for a command that needs confirmation and came
\* without the flag.
C1_Witness ==
    /\ PromptOutcome
    /\ IsPrompt(response)
    /\ parsedCommand.needsConfirmation
    /\ request.context.confirmed = Bool(FALSE)

\* A step on the way of a request that ends in the prompt: its receipt, the
\* gate's return, the delivery of the prompt.
PromptPathStep ==
    \/ rPc = "idle" /\ rPc' = "parsing"
    \/ rPc = "parsing" /\ rPc' = "responded" /\ ~routed'
    \/ rPc = "responded" /\ ~routed

\* C2: when a request ends in the awaiting-confirmation outcome, no evidence
\* call, no pre-trade risk check and no bus publish is made during that
\* request, and the response has success = true, data.requiresConfirmation =
\* true, and the parsed command's intent, entities and confidence attached.
C2_PromptMakesNoCalls ==
    /\ [](PromptOutcome =>
            /\ callLog = <<>>
            /\ response.success
            /\ response.data.requiresConfirmation
            /\ response.data.parsedCommand.attached = "summary"
            /\ response.data.parsedCommand.intent = parsedCommand.intent
            /\ response.data.parsedCommand.entities = parsedCommand.entities
            /\ response.data.parsedCommand.confidence = parsedCommand.confidence)
    /\ [][PromptPathStep => published' = published /\ (rPc' # "idle" => callLog' = <<>>)]_vars

\* A request ends in the prompt after an earlier request of the run had its
\* order published.
C2_Witness ==
    /\ PromptOutcome
    /\ callLog = <<>>
    /\ published # <<>>
    /\ response.success
    /\ response.data.parsedCommand.intent = "BUY"

\* C3: the gate keeps no state between requests.  In every reachable state,
\* that is whatever the earlier turns of the session were (confirmed ones
\* included) and whatever commandHistory holds, a request whose command
\* needs confirmation and whose own context lacks the flag gets the prompt,
\* and a request whose own context has the flag is routed, whether or not a
\* prompt was ever issued before.
C3_GateKeepsNoState ==
    Decided =>
        /\ parsedCommand.needsConfirmation /\ Unconfirmed
               => PromptOutcome /\ IsPrompt(response)
        /\ ~Unconfirmed => routed

\* The prompt is issued although the same command was confirmed and routed in
\* an earlier turn of the same session.
C3_Witness ==
    /\ PromptOutcome
    /\ IsPrompt(response)
    /\ \E t \in turns :
          /\ t.sessionId = request.sessionId
          /\ t.command = request.command
          /\ t.confirmed
          /\ ~t.prompted

-----------------------------------------------------------------------------
(* Properties of the parser (checked under SpecParse) *)

\* The text contains the lower-case word w with each letter in either case.
ContainsAnyCase(s, w) ==
    \E i \in 0..(Len(s) - Len(w)) :
        \A j \in 1..Len(w) : s[i + j] = w[j] \/ s[i + j] = toUpperChar(w[j])

\* The resolver call failed in one of the ways the try block catches.
ResolverFailed ==
    \/ pOutcome.kind \in {"throws", "nontext", "nojson", "badjson"}
    \/ /\ pOutcome.kind = "json"
       /\ \/ pOutcome.payload.intent \notin CommandIntentType
          \/ ~pOutcome.payload.hasEntities
          \/ ~IsNum(pOutcome.payload.confidence)
          \/ pOutcome.payload.confidence.n < 0
          \/ pOutcome.payload.confidence.n > 100
          \/ ~OptionalString(pOutcome.payload.entities.symbol)
          \/ ~(IsUndef(pOutcome.payload.needsConfirmation)
               \/ IsBool(pOutcome.payload.needsConfirmation))

\* parseCommand has returned the result of the fallback.
FellBack == pPc = "returned" /\ ResolverFailed

\* C4: parseCommand never throws and returns a valid ParsedCommand (intent in
\* the enumeration, confidence in [0,1], originalText the input) for every text
\* and every resolver outcome; on every resolver failure the result is the
\* result of fallbackParse on the text.
C4_ParseAlwaysValid ==
    pPc # "start" =>
        /\ pPc = "returned"
        /\ pResult.intent \in CommandIntentType
        /\ pResult.confidence >= 0
        /\ pResult.confidence <= 100
        /\ pResult.originalText = pText
        /\ (ResolverFailed => pResult = fallbackParse(pText))

C4_Witness ==
    /\ pPc = "returned"
    /\ pOutcome.kind = "json"
    /\ pOutcome.payload.confidence = Num(101)
    /\ pText = T_sell \o <<" ">> \o T_NVDA
    /\ pResult.intent = "SELL"

\* C5: every text that contains "buy" or "purchase" in any letter case, also
\* inside a longer word and also beside "sell", "status" or "portfolio", falls
\* back to intent BUY with needsConfirmation true.
C5_BuyOrPurchaseIsBuy ==
    (FellBack /\ (ContainsAnyCase(pText, T_buy) \/ ContainsAnyCase(pText, T_purchase)))
        => (pResult.intent = "BUY" /\ pResult.needsConfirmation)

C5_Witness ==
    /\ FellBack
    /\ ContainsAnyCase(pText, T_purchase)
    /\ ~includes(pText, T_purchase)
    /\ ~includes(pText, T_buy)
    /\ includes(pText, T_sell)
    /\ includes(pText, T_portfolio)
    /\ pResult.intent = "BUY"
    /\ pResult.needsConfirmation

\* C6: the fallback decides the intent by first match in the order
\* buy/purchase, sell, status/portfolio (in any letter case); every other text
\* is a QUERY with confidence 0.3; needsConfirmation is true exactly for BUY and
\* SELL.
C6_FirstMatchOrder ==
    FellBack =>
        LET buy == ContainsAnyCase(pText, T_buy) \/ ContainsAnyCase(pText, T_purchase)
            sell == ContainsAnyCase(pText, T_sell)
            status == ContainsAnyCase(pText, T_status) \/ ContainsAnyCase(pText, T_portfolio)
        IN  /\ (~buy /\ sell) => pResult.intent = "SELL"
            /\ (~buy /\ ~sell /\ status) => pResult.intent = "STATUS"
            /\ (~buy /\ ~sell /\ ~status) =>
                   (pResult.intent = "QUERY" /\ pResult.confidence = 30)
            /\ pResult.confidence >= 30
            /\ pResult.needsConfirmation <=> pResult.intent \in {"BUY", "SELL"}

C6_Witness ==
    /\ FellBack
    /\ ContainsAnyCase(pText, T_sell)
    /\ ContainsAnyCase(pText, T_portfolio)
    /\ pResult.intent = "SELL"
    /\ pResult.needsConfirmation

T_sellNVDA == T_sell \o <<" ">> \o T_NVDA

\* C7 as stated: when the resolver throws, "sell NVDA" parses to SELL, symbol
\* NVDA, confidence 0.6, needsConfirmation true.
C7_SellNvdaConfidence60 ==
    (pPc = "returned" /\ pOutcome.kind = "throws" /\ pText = T_sellNVDA) =>
        /\ pResult.intent = "SELL"
        /\ pResult.entities.symbol = Str(T_NVDA)
        /\ pResult.confidence = 60
        /\ pResult.needsConfirmation

\* C7 amended: when the resolver throws, "sell NVDA" parses to SELL, symbol
\* NVDA, confidence 0.7, needsConfirmation true.
C7_SellNvdaConfidence70 ==
    (pPc = "returned" /\ pOutcome.kind = "throws" /\ pText = T_sellNVDA) =>
        /\ pResult.intent = "SELL"
        /\ pResult.entities.symbol = Str(T_NVDA)
        /\ pResult.confidence = 70
        /\ pResult.needsConfirmation

C7_Witness ==
    /\ pPc = "returned"
    /\ pOutcome.kind = "throws"
    /\ pText = T_sellNVDA
    /\ pResult.entities.symbol = Str(T_NVDA)

-----------------------------------------------------------------------------
(* Properties of gatherAgentInputs (checked under SpecGather) *)

\* The values of a record that do not come from Math.random.
Deterministic(results) == [results EXCEPT !.technical.rsi = 0]

\* C8: when all three remote calls fail, gatherAgentInputs returns a record
\* with all five fields present and complete, holding the documented defaults,
\* trend Sideways and recommendation HOLD; a second call under the same
\* failures returns the same values.
C8_AllFailedGivesDefaults ==
    (gPc = "resolved" /\ AllFailed(gResp)) =>
        /\ gResults.marketData =
              [present |-> TRUE, price |-> 100, change |-> Rat(0, 1), volume |-> 1000000]
        /\ gResults.sentiment.present
        /\ gResults.sentiment.score = 50
        /\ gResults.sentiment.confidence = 70
        /\ gResults.sentiment.sources # <<>>
        /\ gResults.risk.present
        /\ gResults.risk.status = "MEDIUM"
        /\ gResults.risk.score = 5
        /\ gResults.risk.factors # <<>>
        /\ gResults.technical.present
        /\ gResults.technical.trend = "Sideways"
        /\ gResults.technical.rsi \in 35..64
        /\ gResults.technical.support = 9500
        /\ gResults.technical.resistance = 10500
        /\ gResults.strategy.present
        /\ gResults.strategy.recommendation = "HOLD"
        /\ gResults.strategy.confidence = 760
        /\ (gPrev.marketData.present /\ gPrev.strategy.recommendation = "HOLD") =>
               Deterministic(gPrev) = Deterministic(gResults)

C8_Witness ==
    /\ gPc = "resolved"
    /\ AllFailed(gResp)
    /\ gOrder = <<"sentiment", "risk", "market">>
    /\ gPrev.marketData.present
    /\ gPrev.technical.rsi # gResults.technical.rsi
    /\ gResults.strategy.recommendation = "HOLD"

\* C9: the three evidence calls are isolated.  For every subset of failing
\* calls and every completion order, gatherAgentInputs resolves only after all
\* three have settled, with all three fields set, and each of marketData,
\* sentiment and risk is what its own call alone yields: the default when that
\* call failed, the value of its answer when it succeeded, whatever the other
\* two calls did.
C9_CallsIsolated ==
    gPc = "resolved" =>
        /\ AllSettled(agentCalls)
        /\ Len(gOrder) = 3
        /\ gResults.marketData.present
        /\ gResults.sentiment.present
        /\ gResults.risk.present
        /\ gResults.marketData = marketSettle(gResp.market).value
        /\ gResults.sentiment = sentimentSettle(gResp.sentiment).value
        /\ gResults.risk = riskSettle(gResp.risk).value
        /\ ~gResp.market.ok => gResults.marketData.price = 100
        /\ ~gResp.sentiment.ok => gResults.sentiment.score = 50
        /\ ~gResp.risk.ok => gResults.risk.score = 5

C9_Witness ==
    /\ gPc = "resolved"
    /\ gOrder = <<"risk", "market", "sentiment">>
    /\ ~gResp.market.ok
    /\ gResp.sentiment.ok
    /\ gResp.risk.ok
    /\ gResults.sentiment.score = 80
    /\ gResults.risk.score = 8
    /\ gResults.marketData.price = 100

-----------------------------------------------------------------------------
(* Properties of synthesizeAgentInputs (checked under SpecSynth) *)

\* C10 as stated: for every evidence record, any subset of the four dimensions
\* present and also none of them, and for intent BUY or SELL, the returned
\* confidence is a number in [0,1].
C10_ConsensusInUnitInterval ==
    sPc = "returned" =>
        /\ sVerdict.confidence.k = "num"
        /\ sVerdict.confidence.num >= 0
        /\ sVerdict.confidence.num <= sVerdict.confidence.den

\* C11: shouldProceed is true exactly when positiveSignals / totalSignals is at
\* least 0.6 (0 / 0 is not); when it is true, suggestedQuantity is
\* max(1, floor(10 * consensus)); suggestedPrice is the price of the record's
\* marketData.
C11_ThresholdAndSuggestions ==
    sPc = "returned" =>
        LET p == sVerdict.decision.positiveSignals
            t == sVerdict.decision.totalSignals
        IN  /\ sVerdict.shouldProceed <=> (t > 0 /\ 10 * p >= 6 * t)
            /\ sVerdict.shouldProceed =>
                   sVerdict.suggestedQuantity =
                       (IF (10 * p) \div t >= 1 THEN (10 * p) \div t ELSE 1)
            /\ sAnalysis.marketData.present =>
                   sVerdict.suggestedPrice = Num(sAnalysis.marketData.price)

\* Three of four signals agree: the verdict is to proceed with 7 shares at the
\* market price.
C11_Witness ==
    /\ sPc = "returned"
    /\ sVerdict.decision.positiveSignals = 3
    /\ sVerdict.decision.totalSignals = 4
    /\ sVerdict.shouldProceed
    /\ sVerdict.suggestedQuantity = 7
    /\ sVerdict.suggestedPrice = Num(100)

\* The dimensions of a record that are present, and those favourable to BUY.
PresentDims(analysis) ==
    {d \in {"marketData", "sentiment", "technical", "risk"} : analysis[d].present}
FavourableToBuy(analysis) ==
    {d \in PresentDims(analysis) :
        \/ d = "marketData" /\ analysis.marketData.change.num > 0
        \/ d = "sentiment" /\ analysis.sentiment.score > 60
        \/ d = "technical" /\ analysis.technical.trend = "Bullish"
        \/ d = "risk" /\ analysis.risk.score <= 6}

\* C12: for BUY the consensus is (present dimensions that are favourable) /
\* (present dimensions), absent dimensions adding to neither (with none
\* present it is 0 / 0); with all four present and favourable it is 1.0,
\* shouldProceed is true and suggestedQuantity is 10.
C12_BuyConsensusIsFavourableShare ==
    (sPc = "returned" /\ sIntent = "BUY") =>
        LET present == Cardinality(PresentDims(sAnalysis))
            favourable == Cardinality(FavourableToBuy(sAnalysis))
        IN  /\ present = 0 => sVerdict.confidence.k = "nan"
            /\ present > 0 =>
                   /\ sVerdict.confidence.k = "num"
                   /\ sVerdict.confidence.num * present
                          = favourable * sVerdict.confidence.den
            /\ favourable = 4 =>
                   /\ sVerdict.confidence.num = sVerdict.confidence.den
                   /\ sVerdict.shouldProceed
                   /\ sVerdict.suggestedQuantity = 10

\* BUY on a record with sentiment absent and the other three favourable.
C12_Witness ==
    /\ sPc = "returned"
    /\ sIntent = "BUY"
    /\ ~sAnalysis.sentiment.present
    /\ Cardinality(FavourableToBuy(sAnalysis)) = 3
    /\ sVerdict.confidence.num = 3
    /\ sVerdict.confidence.den = 3
    /\ sVerdict.suggestedQuantity = 10

\* C13 as stated: for SELL with all four dimensions present, change < 0,
\* sentiment score < 0.4, trend Bearish and risk score <= 6, every dimension is
\* a positive signal: consensus 1.0, shouldProceed true, suggestedQuantity 10.
C13_SellMirrorsBuy ==
    (/\ sPc = "returned"
     /\ sIntent = "SELL"
     /\ Cardinality(PresentDims(sAnalysis)) = 4
     /\ sAnalysis.marketData.change.num < 0
     /\ sAnalysis.sentiment.score < 40
     /\ sAnalysis.technical.trend = "Bearish"
     /\ sAnalysis.risk.score <= 6) =>
        /\ sVerdict.decision.positiveSignals = 4
        /\ sVerdict.confidence.num = sVerdict.confidence.den
        /\ sVerdict.shouldProceed
        /\ sVerdict.suggestedQuantity = 10

-----------------------------------------------------------------------------
(* Specification of the session history under overlapping processCommand      *)
(* calls: a call runs from one await point to the next without interruption,  *)
(* and another call may run in between                                        *)

InitHistory == AgentIdle /\ ParseIdle /\ GatherIdle /\ SynthIdle /\ HistoryIdle

\* What routeCommand resolves with; the history entry keeps its message and
\* its success flag.
HistoryResponses == {MissingSymbol}

\* addToHistory(sessionId, entry), with the entry also noted in appended.
Record(sessionId, entry) ==
    /\ commandHistory' = addToHistory(commandHistory, sessionId, entry)
    /\ appended' = [appended EXCEPT ![sessionId] = Append(@, entry)]

\* processCommand is called and runs to `await this.intentParser.parseCommand`;
\* the n-th call carries the command text n.
Invoke(slot) ==
    /\ inflight[slot].pc = "free"
    /\ nCalls < MaxCalls
    /\ nCalls' = nCalls + 1
    /\ \E sessionId \in SessionIds :
          LET command == <<ToString(nCalls')>>
          IN  /\ Record(sessionId, CommandEntry(command))
              /\ inflight' = [inflight EXCEPT ![slot] =
                                 [pc |-> "parsing", sessionId |-> sessionId,
                                  command |-> command]]
    /\ UNCHANGED <<variant, rPc, request, parsedCommand, trade, callLog, published,
                   response, routed, nRequests, turns, parseVars, gatherVars, synthVars>>

\* The call's parseCommand ends: the gate returns the prompt, or routeCommand
\* is awaited.
ParseEnds(slot) ==
    /\ inflight[slot].pc = "parsing"
    /\ \E outcome \in {[payload |-> NoPayload, kind |-> "throws"],
                        [payload |-> BasePayload, kind |-> "json"]},
          confirmed \in ContextFlags :
          IF awaitingConfirmation(parseCommand(inflight[slot].command, outcome),
                                  [confirmed |-> confirmed])
          THEN inflight' = [inflight EXCEPT ![slot] = NoCall]
          ELSE inflight' = [inflight EXCEPT ![slot].pc = "routing"]
    /\ UNCHANGED <<agentVars, parseVars, gatherVars, synthVars, appended, nCalls>>

\* The call's routeCommand ends: the response is added to the history and
\* returned.
RouteEnds(slot) ==
    /\ inflight[slot].pc = "routing"
    /\ \E resp \in HistoryResponses :
          Record(inflight[slot].sessionId, ResponseEntry(inflight[slot].command, resp))
    /\ inflight' = [inflight EXCEPT ![slot] = NoCall]
    /\ UNCHANGED <<variant, rPc, request, parsedCommand, trade, callLog, published,
                   response, routed, nRequests, turns, parseVars, gatherVars, synthVars,
                   nCalls>>

NextHistory ==
    \/ \E slot \in Slots : Invoke(slot)
    \/ \E slot \in Slots : ParseEnds(slot)
    \/ \E slot \in Slots : RouteEnds(slot)

SpecHistory == InitHistory /\ [][NextHistory]_vars

-----------------------------------------------------------------------------
(* C14: when the evidence router makes the pre-trade risk check *)

RiskCheckCalled(log) == "risk-engine.pretrade_check" \in Range(log)

\* C14: in the evidence router risk-engine.pretrade_check is called only in a
\* request that passed the confirmation gate and whose verdict has shouldProceed
\* true, and the step that calls it starts with the three evidence calls all
\* settled; a verdict with shouldProceed false ends the request with a response
\* of success false and without a risk check.
C14_RiskCheckOnlyAfterConsensus ==
    /\ [](RiskCheckCalled(callLog) =>
            /\ routed
            /\ Truthy(request.context.confirmed) \/ ~parsedCommand.needsConfirmation
            /\ trade.recommendation.shouldProceed
            /\ trade.recommendation = synthesizeAgentInputs(gResults, parsedCommand.intent)
            /\ gPc = "resolved"
            /\ AllSettled(agentCalls))
    /\ [][RiskCheckCalled(callLog') /\ ~RiskCheckCalled(callLog) =>
            rPc = "gathering" /\ AllSettled(agentCalls) /\ agentCalls' = agentCalls]_vars
    /\ [](gPc = "resolved" /\ ~trade.recommendation.shouldProceed =>
            /\ rPc = "responded"
            /\ ~response.success
            /\ ~RiskCheckCalled(callLog))

\* The risk call settled first and the market call last, the verdict was to
\* proceed, and the risk check is being awaited.
C14_Witness ==
    /\ rPc = "riskcheck"
    /\ gOrder = <<"risk", "sentiment", "market">>
    /\ trade.recommendation.shouldProceed
    /\ callLog[Len(callLog)] = "risk-engine.pretrade_check"

-----------------------------------------------------------------------------
(* C15: a risk check that does not approve *)

\* The risk check of the current request returned a status other than APPROVED.
NotApproved == trade.riskCheck # NoRiskCheck /\ trade.riskCheck.status # "APPROVED"

\* C15: in both routers, once the pre-trade risk check has returned a status
\* other than APPROVED the request has its response, the response has success
\* false, its message carries every breach string returned, bus.publish is not
\* called in the request and nothing is added to the published orders.
C15_RejectionFailsAndPublishesNothing ==
    /\ [](NotApproved =>
            /\ rPc = "responded"
            /\ ~response.success
            /\ Range(trade.riskCheck.breaches) \subseteq Range(response.message.details)
            /\ "bus.publish" \notin Range(callLog))
    /\ [][NotApproved \/ NotApproved' => published' = published]_vars

\* The direct router published the order of an earlier request and has now
\* answered a request whose risk check rejected with two breaches.
C15_Witness ==
    /\ variant = "direct"
    /\ published # <<>>
    /\ rPc = "responded"
    /\ trade.riskCheck.status = "REJECTED"
    /\ response.message.details = <<"maxSingle", "maxGross">>

-----------------------------------------------------------------------------
(* C16: what the evidence router's rejection response carries *)

\* C16: in the evidence router the response to a risk check that did not
\* approve carries in its data the risk check's result, the gathered evidence
\* record and the verdict computed by synthesizeAgentInputs.
C16_RejectionCarriesEvidenceAndVerdict ==
    variant = "evidence" /\ NotApproved =>
        /\ response.data.riskCheck = trade.riskCheck
        /\ response.data.agentAnalysis = trade.agentAnalysis
        /\ response.data.recommendation = trade.recommendation

-----------------------------------------------------------------------------
(* C17: when the direct router publishes an order *)

\* The number of calls of tool in log.
Calls(log, tool) == Cardinality({i \in DOMAIN log : log[i] = tool})

\* The request ended before a risk check had answered: the symbol was missing,
\* the market-data call failed or returned no rows, or the risk check threw.
EndedBeforeApproval ==
    /\ rPc = "responded"
    /\ \/ response = MissingSymbol
       \/ response.message.text = "Could not fetch price data for 0"
       \/ response.message.details = <<ServiceError("market-data")>>
       \/ response.message.details = <<ServiceError("risk-engine")>>

\* C17: in the direct router bus.publish is called at most once in a request
\* and only when the pre-trade risk check of that request returned APPROVED, an
\* order is added to the published ones only by the step in which that call
\* ends, one order at a time, and a request that ended for a missing symbol, a
\* failed or empty market-data answer or a failed risk check has neither called
\* bus.publish nor published.
C17_PublishOnceAfterApproval ==
    /\ [](variant = "direct" =>
            /\ Calls(callLog, "bus.publish") <= 1
            /\ Calls(callLog, "bus.publish") = 1 =>
                   /\ trade.riskCheck.status = "APPROVED"
                   /\ Calls(callLog, "risk-engine.pretrade_check") = 1
            /\ EndedBeforeApproval => Calls(callLog, "bus.publish") = 0)
    /\ [][variant = "direct" /\ published' # published =>
            /\ rPc = "publishing"
            /\ trade.riskCheck.status = "APPROVED"
            /\ Calls(callLog, "bus.publish") = 1
            /\ Len(published') = Len(published) + 1
            /\ SubSeq(published', 1, Len(published)) = published]_vars

\* The direct router has published the orders of two requests, and the second
\* request called bus.publish once.
C17_Witness ==
    /\ variant = "direct"
    /\ rPc = "responded"
    /\ response.success
    /\ Len(published) = 2
    /\ Calls(callLog, "bus.publish") = 1

-----------------------------------------------------------------------------
(* C18: a bus.publish call that fails *)

\* The step in which the awaited bus.publish call ends without an order
\* having been published.
PublishFails == rPc = "publishing" /\ rPc' # "publishing" /\ published' = published

\* C18: in the direct router the step in which bus.publish fails ends the
\* request with a response of success false whose message carries the error
\* message of the failed call, without another call, and a request answered
\* that way has called bus.publish exactly once and stays answered that way
\* until it returns.
C18_PublishFailureIsReported ==
    /\ [][PublishFails =>
            /\ rPc' = "responded"
            /\ ~response'.success
            /\ ServiceError("bus") \in Range(response'.message.details)
            /\ callLog' = callLog]_vars
    /\ [](rPc = "responded" /\ ServiceError("bus") \in Range(response.message.details) =>
            /\ ~response.success
            /\ Calls(callLog, "bus.publish") = 1)
    /\ [][ServiceError("bus") \in Range(response.message.details) =>
            response' = response \/ rPc' = "idle"]_vars

\* The second request's publication failed after the first one's succeeded.
C18_Witness ==
    /\ variant = "direct"
    /\ rPc = "responded"
    /\ response = FailedToProcess(parsedCommand.intent, ServiceError("bus"))
    /\ Len(published) = 1
    /\ nRequests = 2

-----------------------------------------------------------------------------
(* C19: the bounded session history *)

\* The last k entries of seq.
Recent(seq, k) == SubSeq(seq, Len(seq) - k + 1, Len(seq))

\* C19: whatever calls of processCommand were made and however they
\* interleaved at their await points, the history of every session has at most
\* 10 entries and is the sequence of the most recent min(n, 10) of the n
\* entries appended to the session, in the order they were appended.
C19_HistoryIsLastTen ==
    \A sid \in SessionIds :
        LET n == Len(appended[sid])
        IN  /\ Len(commandHistory[sid]) <= 10
            /\ commandHistory[sid] = Recent(appended[sid], IF n <= 10 THEN n ELSE 10)

\* Twelve entries were appended, the two oldest were evicted, and the last two
\* calls overlapped: the sixth call was answered before the fifth.
C19_Witness ==
    LET history == commandHistory["default"]
    IN  /\ Len(appended["default"]) = 12
        /\ Len(history) = 10
        /\ history[7] = CommandEntry(<<"5">>)
        /\ history[8] = CommandEntry(<<"6">>)
        /\ history[9].hasResponse /\ history[9].command = <<"6">>
        /\ history[10].hasResponse /\ history[10].command = <<"5">>

-----------------------------------------------------------------------------
(* C20: every processCommand call returns a response *)

\* A CommandResponse with a boolean success and a non-empty message.
WellFormed(resp) == resp.success \in BOOLEAN /\ resp.message.text # ""

\* C20: when the resolver call and every service call eventually resolve or
\* reject, every request that processCommand has started on eventually has a
\* response with a boolean success and a non-empty message; the parser hands
\* processCommand a command whatever the resolver did, and every response
\* processCommand returns is of that form.
C20_EveryCallReturnsAResponse ==
    /\ (rPc \notin {"idle", "responded"}) ~> (rPc = "responded" /\ WellFormed(response))
    /\ [](Decided => parsedCommand # Thrown)
    /\ [](rPc = "responded" => WellFormed(response))

\* The direct router's request was answered after its market-data call had
\* succeeded and its risk check had failed.
C20_Witness ==
    /\ variant = "direct"
    /\ callLog = <<"market-data.get_ohlcv", "risk-engine.pretrade_check">>
    /\ rPc = "responded"
    /\ ~response.success
    /\ response.message.text = "Failed to process 0 order: 1"
    /\ response.message.details = <<ServiceError("risk-engine")>>

-----------------------------------------------------------------------------
(* C21: the symbol the fallback extracts *)

\* The maximal runs of letters of s, as <<first, last>> positions.
LetterRuns(s) ==
    {<<i, RunEnd(s, i)>> : i \in {k \in 1..Len(s) : IsAlpha(s[k]) /\ (k = 1 \/ ~IsAlpha(s[k - 1]))}}

\* Those of them that touch neither a digit nor an underscore.
WordRuns(s) ==
    {r \in LetterRuns(s) : /\ r[1] = 1 \/ ~IsWordChar(s[r[1] - 1])
                           /\ r[2] = Len(s) \/ ~IsWordChar(s[r[2] + 1])}

\* The first of runs that has at most five letters and is no stop word, in
\* upper case; undefined when there is none.
FirstSurvivor(s, runs) ==
    LET kept == {r \in runs : /\ r[2] - r[1] + 1 <= 5
                              /\ toLowerCase(SubSeq(s, r[1], r[2])) \notin StopWords}
    IN  IF kept = {} THEN Undef
        ELSE LET first == CHOOSE a \in kept : \A b \in kept : a[1] <= b[1]
             IN  Str(toUpperCase(SubSeq(s, first[1], first[2])))

\* The fallback has returned a BUY or a SELL command.
FellBackToTrade == FellBack /\ pResult.intent \in {"BUY", "SELL"}

\* C21 as stated: in the BUY and SELL branches of the fallback the symbol is the
\* upper-cased first maximal run of one to five letters that is no stop word,
\* and it is unset when there is none.
C21_SymbolIsFirstLetterRun ==
    FellBackToTrade => pResult.entities.symbol = FirstSurvivor(pText, LetterRuns(pText))

\* C21 amended: in the BUY and SELL branches of the fallback the symbol is the
\* upper-cased first run of one to five letters that has no letter, digit or
\* underscore next to it and is no stop word (compared in lower case), and it
\* is unset, with the command returned all the same, when there is none.
C21_SymbolIsFirstWordRun ==
    FellBackToTrade => pResult.entities.symbol = FirstSurvivor(pText, WordRuns(pText))

\* "buy NVDA5,0,0": a digit follows NVDA, which is therefore no word, and the
\* symbol is unset.
C21_Witness ==
    /\ FellBackToTrade
    /\ pText = T_buy \o <<" ">> \o T_NVDA \o <<"5", ",", "0", ",", "0">>
    /\ pResult.intent = "BUY"
    /\ pResult.entities.symbol = Undef

-----------------------------------------------------------------------------
(* C22: the amount the fallback extracts *)

\* s without its commas.
WithoutCommas(s) == SelectSeq(s, LAMBDA c : c # ",")

\* C22: in the BUY branch of the fallback the amount is unset when the text has
\* no "$" followed by a digit or a comma, it is the number written by the
\* digits of the first such match, all commas removed, when the match starts
\* with a digit, and it is never anything but unset or a number.
C22_AmountIsTheWholeNumber ==
    FellBack /\ pResult.intent = "BUY" =>
        LET m == amountMatch(pText)
            amount == pResult.entities.amount
        IN  /\ m = <<>> => amount = Undef
            /\ m # <<>> /\ Head(m) \in Range(Digits) =>
                   amount = Num(DigitsValue(WithoutCommas(m)))
            /\ IsUndef(amount) \/ IsNum(amount)

-----------------------------------------------------------------------------
(* C23: the amount of a SELL text *)

\* C23: a text that falls back to SELL and holds a "$" followed by digits gets
\* the amount the BUY branch extracts from the same text.
C23_SellTextKeepsItsAmount ==
    /\ FellBack
    /\ pResult.intent = "SELL"
    /\ amountMatch(pText) # <<>>
    /\ Head(amountMatch(pText)) \in Range(Digits)
    => /\ IsNum(pResult.entities.amount)
       /\ pResult.entities.amount = fallbackBuy(pText).entities.amount

-----------------------------------------------------------------------------
(* C24: the ranges of the evidence scores *)

\* C24: in every record gatherAgentInputs returns, whatever the services
\* answered, sentiment.score lies in [0, 1] (0 to 100 hundredths) and
\* risk.score lies in [0, 10].
C24_ScoresAreClamped ==
    gPc = "resolved" =>
        /\ gResults.sentiment.score >= 0 /\ gResults.sentiment.score <= 100
        /\ gResults.risk.score >= 0 /\ gResults.risk.score <= 10

-----------------------------------------------------------------------------
(* C25: the letter case of the symbol *)

\* C25: in every command parseCommand returns, from the resolver's object as
\* well as from the fallback, the symbol is absent or a string of upper-case
\* letters only.
C25_SymbolIsUpperCase ==
    pPc = "returned" =>
        \/ IsUndef(pResult.entities.symbol)
        \/ /\ pResult.entities.symbol.k = "str"
           /\ Range(pResult.entities.symbol.s) \subseteq Range(UpperLetters)

-----------------------------------------------------------------------------
(* C26: the ParsedCommand is read only *)

\* C26: from the moment parseCommand has returned it to the moment the
\* response leaves processCommand, the ParsedCommand of the request keeps its
\* intent, entities, confidence and needsConfirmation: no step of the gate, of
\* routeCommand, of the evidence gathering and synthesis, of the risk check or
\* of the publication changes it, and the proposal sent to the risk check
\* carries its symbol and intent.
C26_ParsedCommandIsNeverWritten ==
    /\ [][Decided /\ rPc' # "idle" => parsedCommand' = parsedCommand]_vars
    /\ [](Decided /\ trade.proposal # NoTrade.proposal =>
            /\ trade.proposal.symbol = parsedCommand.entities.symbol
            /\ trade.proposal.side = parsedCommand.intent)

\* The direct router has published the order of the resolver's BUY command for
\* $5000 and the command still has no quantity.
C26_Witness ==
    /\ variant = "direct"
    /\ rPc = "responded"
    /\ response.success
    /\ published # <<>>
    /\ parsedCommand.intent = "BUY"
    /\ parsedCommand.entities = BasePayload.entities
    /\ trade.quantity = Num(50)

-----------------------------------------------------------------------------
(* C27: the trend and the strategy recommendation *)

\* C27: in the record gatherAgentInputs returns, technical.trend is Bullish
\* when marketData.change is above 2, Bearish when it is below -2 and Sideways
\* otherwise, a change of exactly 2 or -2 included; strategy.recommendation is,
\* for intent BUY, BUY when sentiment.score is above 0.6 and the trend is not
\* Bearish and HOLD otherwise, and for intent SELL, SELL when sentiment.score
\* is below 0.4 and the trend is not Bullish and HOLD otherwise.
C27_TrendAndRecommendation ==
    gPc = "resolved" =>
        LET change == gResults.marketData.change
            score == gResults.sentiment.score
            trend == gResults.technical.trend
        IN  /\ trend = (IF change.num > 2 * change.den THEN "Bullish"
                        ELSE IF change.num < -2 * change.den THEN "Bearish"
                        ELSE "Sideways")
            /\ gIntent = "BUY" =>
                  gResults.strategy.recommendation =
                      (IF score > 60 /\ trend # "Bearish" THEN "BUY" ELSE "HOLD")
            /\ gIntent = "SELL" =>
                  gResults.strategy.recommendation =
                      (IF score < 40 /\ trend # "Bullish" THEN "SELL" ELSE "HOLD")

\* A SELL whose market rows fell from 100 to 98, a change of exactly -2, and
\* whose sentiment is 0.3: the trend is Sideways and the recommendation SELL.
C27_Witness ==
    /\ gPc = "resolved"
    /\ gIntent = "SELL"
    /\ gResults.marketData.change = Rat(-200, 100)
    /\ gResults.sentiment.score = 30
    /\ gResults.technical.trend = "Sideways"
    /\ gResults.strategy.recommendation = "SELL"

-----------------------------------------------------------------------------
(* C28: one rationale for each counted dimension *)

\* C28: for BUY and for SELL the reason synthesizeAgentInputs returns holds one
\* rationale for each dimension counted in totalSignals, so that the number
\* of rationales is totalSignals and the positive and the negative signals
\* add up to totalSignals.
C28_OneReasonPerSignal ==
    sPc = "returned" =>
        LET c == synthCounters(sAnalysis, sIntent)
        IN  /\ sVerdict.decision.totalSignals = Cardinality(PresentDims(sAnalysis))
            /\ Len(sVerdict.reason) = sVerdict.decision.totalSignals
            /\ c.positiveSignals + c.negativeSignals = c.totalSignals

-----------------------------------------------------------------------------
(* C29: a trading command without a symbol *)

\* C29: in either router, a BUY or SELL command without a symbol that has
\* passed the confirmation gate makes no remote call at all, hence no evidence
\* call, no risk check and no publication: routeCommand answers at once with
\* the unsuccessful response that asks for a stock symbol, which is not the
\* response of an error.
C29_NoSymbolNoCalls ==
    (/\ routed
     /\ parsedCommand.intent \in {"BUY", "SELL"}
     /\ IsUndef(parsedCommand.entities.symbol)) =>
        /\ callLog = <<>>
        /\ trade = NoTrade
        /\ rPc = "responded"
        /\ ~response.success
        /\ response.message.text = "Please specify a stock symbol for trading commands."
        /\ response.data = NoData

\* The evidence router has answered a confirmed "sell" that names no stock,
\* after the session's first request, a BUY without symbol from the resolver,
\* got the same answer.
C29_Witness ==
    /\ variant = "evidence"
    /\ routed
    /\ rPc = "responded"
    /\ request.command = T_sell
    /\ parsedCommand.intent = "SELL"
    /\ IsUndef(parsedCommand.entities.symbol)
    /\ response = MissingSymbol
    /\ Len(commandHistory[request.sessionId]) = 4
    /\ commandHistory[request.sessionId][2].response = MissingSymbol.message.text
    /\ commandHistory[request.sessionId][1].command # T_sell

-----------------------------------------------------------------------------
(* C30: trading after a STOP command *)

\* A STOP command of some session has been answered with the message that
\* trading is suspended.
Stopped ==
    \E sessionId \in DOMAIN commandHistory :
        \E i \in DOMAIN commandHistory[sessionId] :
            /\ commandHistory[sessionId][i].success
            /\ commandHistory[sessionId][i].response \in
                  {"Emergency stop activated. All trading agents have been paused.",
                   "EMERGENCY STOP ACTIVATED: All trading operations have been suspended for safety."}

\* C30: once a STOP command has returned its success response, no request
\* calls the pre-trade risk check and no order is published.
C30_NoTradingAfterStop ==
    /\ [](Stopped => ~RiskCheckCalled(callLog))
    /\ [][Stopped => published' = published]_vars

-----------------------------------------------------------------------------
(* C31: the evidence router never publishes *)

\* The text of the evidence router's request for confirmation.
ConfirmText == "Agent Swarm Analysis ... Confirm: 0 1 shares of 2?"

-----------------------------------------------------------------------------
(* C32: all three evidence calls fail *)

\* C32: in the evidence router, when the market-data, the sentiment and the
\* risk call of a BUY or SELL request have all failed, the record is filled
\* with the defaults, one signal of four is positive, the verdict is not to
\* proceed, and the request ends with the unsuccessful response that advises
\* against the trade, without a call of the pre-trade risk check.
C32_AllFailedAbstains ==
    (/\ variant = "evidence"
     /\ gPc = "resolved"
     /\ AllFailed(gResp)) =>
        /\ parsedCommand.intent \in {"BUY", "SELL"}
        /\ gResults.marketData = MarketDefault
        /\ gResults.sentiment = SentimentDefault
        /\ gResults.risk = RiskDefault
        /\ trade.recommendation.decision.positiveSignals = 1
        /\ trade.recommendation.decision.totalSignals = 4
        /\ trade.recommendation.confidence = [k |-> "num", num |-> 1, den |-> 4]
        /\ ~trade.recommendation.shouldProceed
        /\ rPc = "responded"
        /\ ~response.success
        /\ response.message.text =
              "Agent Swarm Analysis ... Agents recommend AGAINST this trade: 0"
        /\ ~RiskCheckCalled(callLog)

\* A confirmed SELL whose risk call failed first, then the market-data call,
\* then the sentiment call: the agents advise against it with three reasons.
C32_Witness ==
    /\ variant = "evidence"
    /\ gPc = "resolved"
    /\ AllFailed(gResp)
    /\ gOrder = <<"risk", "market", "sentiment">>
    /\ parsedCommand.intent = "SELL"
    /\ rPc = "responded"
    /\ ~response.success
    /\ Len(trade.recommendation.reason) = 3
    /\ Len(callLog) = 3

-----------------------------------------------------------------------------
(* C33: trading commands and the confirmed flag *)

\* C33: every command with intent BUY or SELL that routeCommand hands to
\* handleTradingCommand belongs to a request whose context.confirmed is
\* truthy, whatever the resolver returned for it.
C33_TradingOnlyWhenConfirmed ==
    (routed /\ parsedCommand.intent \in {"BUY", "SELL"}) =>
        Truthy(request.context.confirmed)

-----------------------------------------------------------------------------
(* C34: the quantity of the direct router *)

\* C34: in the direct router the proposal sent to the pre-trade risk check
\* and every order published to the bus have a qty that is a number of at
\* least 1, whatever the quantity and the amount of the command and the
\* current price are.
C34_QuantityAtLeastOne ==
    variant = "direct" =>
        /\ RiskCheckCalled(callLog) =>
              IsNum(trade.proposal.qty) /\ trade.proposal.qty.n >= 1
        /\ \A i \in DOMAIN published :
              IsNum(published[i].qty) /\ published[i].qty.n >= 1
====
